---- MODULE Spec2Model ----
(***************************************************************************)
(* Verification model of the resource-usage profiling engine of            *)
(* scripts/benchmark: the DevTools protocol client (BrowserResourceMonitor)*)
(* the profiling pass (ResourceUsageRunner._measure_framework_resources_   *)
(* simple) and the multi-run aggregation of BenchmarkRunner.               *)
(*                                                                         *)
(* The module holds several state machines over one set of variables;     *)
(* each specification drives one of them and leaves the others' variables  *)
(* at their initial values.                                                *)
(*   SpecClient : BrowserResourceMonitor over one websocket                *)
(***************************************************************************)
EXTENDS Integers, Sequences, FiniteSets, TLC

(***************************************************************************)
(* Bounds of the model                                                     *)
(***************************************************************************)
\* requests the client may write to the socket in one behaviour
MaxSends == 7
\* unsolicited event notifications the browser may push in one behaviour
MaxEvents == 1
\* public calls (send_command / get_memory_usage / navigate_to_url) started in one behaviour
MaxCalls == 2
\* calls of send_command two concurrent callers start in one behaviour
MaxTaskCalls == 4
\* Lighthouse runs (targets times executions) of one run_all_frameworks
MaxLighthouseRuns == 4
\* calls of run_all_frameworks on one runner in one behaviour
MaxRunnerCalls == 2
\* profiling passes (calls of run_single_benchmark) in one behaviour
MaxPasses == 2
\* largest executions argument of run_all_frameworks
MaxExecutions == 3

(***************************************************************************)
(* Program constants                                                       *)
(***************************************************************************)
\* bytes per megabyte, the divisor 1024 * 1024 of get_memory_usage
BytesPerMB == 1048576
\* navigate_to_url: while timeout_count < 30
PollLimit == 30

VARIABLES
    \* ---- BrowserResourceMonitor ----
    websocket,      \* "None" | "open" | "closed"  (self.websocket and its state)
    session_id,     \* self.session_id
    inbox,          \* messages received on the socket, not yet read by recv()
    pending,        \* requests the browser has received and not yet answered
    wire,           \* ids of the requests written to the socket, in order
    op,             \* the public call in progress: "idle" | "send_command" |
                    \*   "get_memory_usage" | "navigate_to_url"
    step,           \* get_memory_usage, navigate_to_url: index of the command being sent
    cpc,            \* position inside the call: "ready" | "recv" | "poll"
    command,        \* the command dict of the send_command in progress
    cret,           \* value returned by the last send_command
    mret,           \* value returned by the last get_memory_usage
    startState,     \* state of the socket when the last public call began
    raised,         \* whether a send or recv of the last public call raised
    nevents,        \* events pushed so far
    ncalls,         \* public calls started so far
    timeout_count,  \* navigate_to_url: local timeout_count of the wait loop
    polls,          \* navigate_to_url: iterations the wait loop has made
    nret            \* value returned by the last navigate_to_url: "none" | "True" | "False"

clientVars == <<websocket, session_id, inbox, pending, wire, op, step, cpc,
                command, cret, mret, startState, raised, nevents, ncalls,
                timeout_count, polls, nret>>

VARIABLES
    \* ---- one profiling pass: run_single_benchmark -> _measure_framework_resources_simple ----
    ppc,                 \* position of the pass: "idle" | "launch" | "baseline" | "connect" |
                         \*   "scenarios" | "final" | "except" | "td_close" | "td_terminate" |
                         \*   "td_rmtree" | "return"
    framework,           \* the target of the pass
    npasses,             \* passes started so far (the number of the current pass)
    chrome_proc,         \* local chrome_proc: 0 (None) or the process it refers to
    chrome_user_dir,     \* local chrome_user_dir: 0 (None) or the directory it names
    browser_monitor,     \* local browser_monitor: "None" | "monitor"
    baseline,            \* memory_mb of the baseline, -1 before it is established
    scen,                \* index of the scenario to run next
    interaction_results, \* local interaction_results (scenario names)
    scenRaised,          \* indices of the scenarios that raised in this pass
    exc,                 \* the exception caught by the pass's except clause, or "None"
    resource_data,       \* the dict the pass returns
    teardownLog,         \* teardown steps attempted by this pass, in order
    teardownFailed,      \* teardown steps of this pass that failed
    result,              \* the BenchmarkResult the last call of run_single_benchmark
                         \*   returned (none while a call is in progress)
    procs,               \* sandbox browser processes that exist
    dirs,                \* profile directories that exist
    launched,            \* passes whose launch spawned a process
    killFailed,          \* passes whose process survived terminate and kill
    page,                \* the URL the sandbox browser has been directed to
    baseline_samples,    \* the samples establish_baseline took: memory and the page then
    devtools,            \* Step 3 of the pass: "untried" | "connected" | "failed"
    commands,            \* protocol calls the scenarios of this pass have made
    loops,               \* event loops this pass has made: one per asyncio.run(...)
    socket_loop,         \* the loop on which the protocol socket was opened (0: no socket)
    socket_loops         \* the loops on which the socket has been operated

loopVars == <<loops, socket_loop, socket_loops>>

passVars == <<ppc, framework, npasses, chrome_proc, chrome_user_dir, browser_monitor,
              baseline, scen, interaction_results, scenRaised, exc, resource_data,
              teardownLog, teardownFailed, result, procs, dirs, launched, killFailed,
              page, baseline_samples, devtools, commands, loopVars>>

VARIABLES
    \* ---- BenchmarkRunner: run_all_frameworks / run_multiple_executions ----
    kind,                \* benchmark_name of the runner: "Resource Usage" | "Lighthouse"
    calls,               \* calls of run_all_frameworks made on the runner so far
    rpc,                 \* position: "idle" | "target" | "exec" | "done"
    frameworks,          \* argument frameworks of run_all_frameworks
    executions,          \* argument executions
    fi,                  \* index of the target the for loop is at
    execution,           \* run_multiple_executions: runs made so far
    successful_results,  \* local successful_results
    failed_results,      \* local failed_results
    results,             \* self.results
    returned,            \* what run_all_frameworks returned
    runs,                \* the results of the runs of the current target, in run order
    outcomes             \* per target of this call: "ok" | "failed" | "raised"

runnerVars == <<kind, calls, rpc, frameworks, executions, fi, execution, successful_results,
                failed_results, results, returned, runs, outcomes>>

VARIABLES
    \* ---- SystemResourceMonitor and _create_interaction_metrics ----
    spc,            \* position: "new" | "idle" | "baseline" | "sampling" | "measured" | "done" | "raised"
    root_pid,       \* self.root_pid: 0 (None) or the pid of the sandbox browser
    has_baseline,   \* whether self.baseline is set
    self_baseline,  \* self.baseline
    base_samples,   \* establish_baseline: local samples
    snapshot,       \* the snapshot get_resource_snapshot returned last
    zero_target,    \* whether the last snapshot found no process of the target
    vanished,       \* whether a process vanished while the last snapshot read it
    table_read,     \* the process table of the machine at the last snapshot
    found,          \* the processes the last snapshot went through
    samples,        \* the samples of the scenario being measured
    metrics,        \* the InteractionMetrics made from them
    usage,          \* the snapshot calculate_app_usage returned last
    usage_of        \* what it was applied to: "none" | "baseline" | "snapshot"

samplerVars == <<spc, root_pid, has_baseline, self_baseline, base_samples, snapshot,
                 zero_target, vanished, table_read, found, samples, metrics, usage,
                 usage_of>>

VARIABLES
    \* ---- two coroutines calling send_command on one BrowserResourceMonitor ----
    tasks_pc,          \* per caller: "idle" | "sent" | "recv"
    tasks_command,     \* per caller: the id of the command it built (0: none)
    tasks_ret,         \* per caller: the value its last send_command returned
    shared_session_id, \* self.session_id of the monitor they share
    shared_inbox,      \* messages received on the shared socket, not yet read
    shared_pending,    \* requests the browser has received and not yet answered
    recv_waiter,       \* the caller suspended in websocket.recv() (0: none)
    tasks_calls        \* calls of send_command started so far

tasksVars == <<tasks_pc, tasks_command, tasks_ret, shared_session_id, shared_inbox,
               shared_pending, recv_waiter, tasks_calls>>

VARIABLES
    \* ---- calls of ResourceUsageRunner._calculate_efficiency_score ----
    score_pc,          \* "new" (no call yet) | "called" | "returned"
    score_base,        \* the argument base_value of the last call
    score_delta,       \* the argument delta_value of the last call
    score_out          \* what the last call returned

scoreVars == <<score_pc, score_base, score_delta, score_out>>

VARIABLES
    \* ---- LighthouseRunner and the Chrome it audits through ----
    lh_pc,             \* run_all_frameworks: "running" | "cleaned" (cleanup() was made)
    lh_runs,           \* calls of run_single_benchmark made so far
    chrome_launcher,   \* self.chrome_launcher: 0 (None) or the process its launcher holds
    port_owner,        \* who answers on the debugging port: 0 nobody, -1 a Chrome the
                       \*   runner did not start, p > 0 the process p it started
    started,           \* the Chrome processes the runner's launchers have started
    alive,             \* those of them that are running
    terminated         \* the processes the runner has terminated

lighthouseVars == <<lh_pc, lh_runs, chrome_launcher, port_owner, started, alive, terminated>>

vars == <<clientVars, passVars, runnerVars, samplerVars, tasksVars, scoreVars,
          lighthouseVars>>

nonClientVars == <<passVars, runnerVars, samplerVars, tasksVars, scoreVars, lighthouseVars>>

nonPassVars == <<clientVars, runnerVars, samplerVars, tasksVars, scoreVars, lighthouseVars>>

nonRunnerVars == <<clientVars, passVars, samplerVars, tasksVars, scoreVars, lighthouseVars>>

nonSamplerVars == <<clientVars, passVars, runnerVars, tasksVars, scoreVars, lighthouseVars>>

nonTasksVars == <<clientVars, passVars, runnerVars, samplerVars, scoreVars, lighthouseVars>>

nonScoreVars == <<clientVars, passVars, runnerVars, samplerVars, tasksVars, lighthouseVars>>

nonLighthouseVars == <<clientVars, passVars, runnerVars, samplerVars, tasksVars, scoreVars>>

(***************************************************************************)
(* Messages and dictionaries                                               *)
(***************************************************************************)
\* dict.get(key, default)
Get(d, k, default) == IF k \in DOMAIN d THEN d[k] ELSE default

\* the Python dict {} returned by send_command on any failure
EmptyDict == [kind |-> "empty"]

NoCommand == [id |-> 0, method |-> "none"]

\* heap sizes in bytes the browser may report in Performance.getMetrics
HeapBytes == {0, 8 * BytesPerMB}

\* the methods get_memory_usage sends, in order
GMUMethods == <<"Page.enable", "Runtime.enable", "Performance.enable",
                "HeapProfiler.enable", "HeapProfiler.collectGarbage",
                "Performance.getMetrics">>

\* a response of the browser to request `c`
Response(c, used) ==
    [kind |-> "response", id |-> c.id, metrics |-> (c.method = "Performance.getMetrics"),
     used |-> IF c.method = "Performance.getMetrics" THEN used ELSE 0]

\* an unsolicited notification: it carries a method and no id
Event == [kind |-> "event", id |-> 0, metrics |-> FALSE, used |-> 0]

\* the notification navigate_to_url waits for (Page.loadEventFired)
LoadEvent == [kind |-> "load", id |-> 0, metrics |-> FALSE, used |-> 0]

NoResult == [kind |-> "none"]

\* the methods navigate_to_url sends before it waits, in order
NavMethods == <<"Page.enable", "Runtime.enable", "Page.navigate">>

(***************************************************************************)
(* BrowserResourceMonitor.__init__                                         *)
(***************************************************************************)
ClientInit ==
    /\ websocket = "None"
    /\ session_id = 1
    /\ inbox = <<>>
    /\ pending = {}
    /\ wire = <<>>
    /\ op = "idle"
    /\ step = 0
    /\ cpc = "ready"
    /\ command = NoCommand
    /\ cret = NoResult
    /\ mret = NoResult
    /\ startState = "None"
    /\ raised = FALSE
    /\ nevents = 0
    /\ ncalls = 0
    /\ timeout_count = 0
    /\ polls = 0
    /\ nret = "none"

(***************************************************************************)
(* connect(): the control endpoint is queried for targets and the socket   *)
(* of a page target (else of the browser) is opened.  Any exception, and a *)
(* missing socket url, returns False and leaves self.websocket unchanged.  *)
(***************************************************************************)
ConnectResult(httpOk, pageWs, browserWs, wsOk) ==
    LET target_ws == IF pageWs THEN "page" ELSE IF browserWs THEN "browser" ELSE "None"
    IN  httpOk /\ target_ws # "None" /\ wsOk

Connect ==
    /\ op = "idle"
    /\ websocket = "None"
    /\ \E httpOk \in BOOLEAN, pageWs \in BOOLEAN, browserWs \in BOOLEAN, wsOk \in BOOLEAN :
          websocket' = IF ConnectResult(httpOk, pageWs, browserWs, wsOk)
                       THEN "open" ELSE websocket
    /\ UNCHANGED <<session_id, inbox, pending, wire, op, step, cpc, command, cret,
                   mret, startState, raised, nevents, ncalls>>
    /\ UNCHANGED <<timeout_count, polls, nret>>
    /\ UNCHANGED nonClientVars

(***************************************************************************)
(* close(): closes the socket when there is one; self.websocket keeps      *)
(* referring to the closed connection object.                              *)
(***************************************************************************)
CloseSocket(ws) == IF ws # "None" THEN "closed" ELSE ws

Close ==
    /\ op = "idle"
    /\ websocket = "open"
    /\ websocket' = CloseSocket(websocket)
    /\ UNCHANGED <<session_id, inbox, pending, wire, op, step, cpc, command, cret,
                   mret, startState, raised, nevents, ncalls>>
    /\ UNCHANGED <<timeout_count, polls, nret>>
    /\ UNCHANGED nonClientVars

(***************************************************************************)
(* The browser's side of the socket                                        *)
(***************************************************************************)
\* the peer drops the connection (browser exits, network error)
PeerClose ==
    /\ websocket = "open"
    /\ websocket' = "closed"
    /\ UNCHANGED <<session_id, inbox, pending, wire, op, step, cpc, command, cret,
                   mret, startState, raised, nevents, ncalls>>
    /\ UNCHANGED <<timeout_count, polls, nret>>
    /\ UNCHANGED nonClientVars

\* the browser pushes an event notification (Runtime.executionContextCreated,
\* ...; Page.loadEventFired while a navigation is under way)
BrowserEvent ==
    /\ websocket = "open"
    /\ nevents < MaxEvents
    /\ \E e \in (IF op = "navigate_to_url" THEN {Event, LoadEvent} ELSE {Event}) :
          inbox' = Append(inbox, e)
    /\ nevents' = nevents + 1
    /\ UNCHANGED <<websocket, session_id, pending, wire, op, step, cpc, command,
                   cret, mret, startState, raised, ncalls>>
    /\ UNCHANGED <<timeout_count, polls, nret>>
    /\ UNCHANGED nonClientVars

\* the browser answers one of the requests it has received
BrowserRespond ==
    /\ websocket = "open"
    /\ \E c \in pending, used \in HeapBytes :
          /\ inbox' = Append(inbox, Response(c, used))
          /\ pending' = pending \ {c}
    /\ UNCHANGED <<websocket, session_id, wire, op, step, cpc, command, cret,
                   mret, startState, raised, nevents, ncalls>>
    /\ UNCHANGED <<timeout_count, polls, nret>>
    /\ UNCHANGED nonClientVars

(***************************************************************************)
(* send_command(method)                                                    *)
(***************************************************************************)
\* the id a command is given
CommandId(sid) == sid

\* the message recv() hands to send_command
RecvMessage(queue) == Head(queue)

\* (mutant) the id is not advanced
NextSessionId_Kept(sid) == sid

\* self.session_id after a response was received
NextSessionId(sid) == sid + 1

\* the method of the command the call in progress sends next
CurrentMethod ==
    IF op = "get_memory_usage" THEN GMUMethods[step]
    ELSE IF op = "navigate_to_url" THEN NavMethods[step]
    ELSE "Runtime.evaluate"

\* get_memory_usage's result from the response to Performance.getMetrics
MemoryUsageResult(perf_response) ==
    IF perf_response.kind = "response" /\ perf_response.metrics
    THEN [heap_used_mb |-> perf_response.used \div BytesPerMB,
          heap_total_mb |-> perf_response.used \div BytesPerMB,
          connection_working |-> TRUE]
    ELSE [heap_used_mb |-> 0, heap_total_mb |-> 0,
          connection_working |-> TRUE, no_heap_data |-> TRUE]

\* what happens when the send_command in progress returns `r`:
\* a direct call is over; get_memory_usage goes on to its next command, or
\* builds its result from the last response; navigate_to_url goes on to its
\* next command, or enters its wait loop
Return(r) ==
    /\ cret' = r
    /\ cpc' = IF op = "navigate_to_url" /\ step = Len(NavMethods) THEN "poll" ELSE "ready"
    /\ IF op = "get_memory_usage"
       THEN IF step < Len(GMUMethods)
            THEN /\ step' = step + 1
                 /\ UNCHANGED <<op, mret>>
            ELSE /\ mret' = MemoryUsageResult(r)
                 /\ op' = "idle"
                 /\ step' = 0
       ELSE IF op = "navigate_to_url"
       THEN /\ step' = IF step < Len(NavMethods) THEN step + 1 ELSE step
            /\ UNCHANGED <<op, mret>>
       ELSE /\ op' = "idle"
            /\ UNCHANGED <<step, mret>>

\* a direct call of send_command (the scenarios' Runtime.evaluate)
CallSendCommand ==
    /\ op = "idle"
    /\ ncalls < MaxCalls
    /\ ncalls' = ncalls + 1
    /\ startState' = websocket
    /\ raised' = FALSE
    /\ IF websocket = "None"
       THEN /\ cret' = EmptyDict                       \* if not self.websocket: return {}
            /\ UNCHANGED <<op, cpc>>
       ELSE /\ op' = "send_command"
            /\ cpc' = "ready"
            /\ cret' = NoResult
    /\ UNCHANGED <<websocket, session_id, inbox, pending, wire, step, command,
                   mret, nevents>>
    /\ UNCHANGED <<timeout_count, polls, nret>>
    /\ UNCHANGED nonClientVars

\* await self.websocket.send(json.dumps(command))
SendCommandSend ==
    /\ op \in {"send_command", "get_memory_usage", "navigate_to_url"}
    /\ cpc = "ready"
    /\ websocket = "open" => Len(wire) < MaxSends
    /\ LET c == [id |-> CommandId(session_id), method |-> CurrentMethod]
       IN  /\ command' = c
           /\ IF websocket = "open"
              THEN /\ wire' = Append(wire, c.id)
                   /\ pending' = pending \cup {c}
                   /\ cpc' = "recv"
                   /\ cret' = NoResult
                   /\ UNCHANGED <<op, step, mret, raised>>
              ELSE \* the send raises: except Exception: return {}
                   /\ Return(EmptyDict)
                   /\ raised' = TRUE
                   /\ UNCHANGED <<wire, pending>>
    /\ UNCHANGED <<websocket, session_id, inbox, startState, nevents, ncalls>>
    /\ UNCHANGED <<timeout_count, polls, nret>>
    /\ UNCHANGED nonClientVars

\* response = await self.websocket.recv(); self.session_id += 1; return json.loads(response)
SendCommandRecv ==
    /\ op \in {"send_command", "get_memory_usage", "navigate_to_url"}
    /\ cpc = "recv"
    /\ inbox # <<>>
    /\ inbox' = Tail(inbox)
    /\ session_id' = NextSessionId(session_id)
    /\ Return(RecvMessage(inbox))
    /\ UNCHANGED <<websocket, pending, wire, command, startState, raised, nevents, ncalls>>
    /\ UNCHANGED <<timeout_count, polls, nret>>
    /\ UNCHANGED nonClientVars

\* recv() raises on a closed connection with nothing left to read: return {}
SendCommandRecvFails ==
    /\ op \in {"send_command", "get_memory_usage", "navigate_to_url"}
    /\ cpc = "recv"
    /\ inbox = <<>>
    /\ websocket = "closed"
    /\ Return(EmptyDict)
    /\ raised' = TRUE
    /\ UNCHANGED <<websocket, session_id, inbox, pending, wire, command,
                   startState, nevents, ncalls>>
    /\ UNCHANGED <<timeout_count, polls, nret>>
    /\ UNCHANGED nonClientVars

(***************************************************************************)
(* get_memory_usage()                                                      *)
(***************************************************************************)
CallGetMemoryUsage ==
    /\ op = "idle"
    /\ ncalls < MaxCalls
    /\ ncalls' = ncalls + 1
    /\ startState' = websocket
    /\ raised' = FALSE
    /\ IF websocket = "None"
       THEN /\ mret' = [connection_working |-> FALSE]
            /\ UNCHANGED <<op, step, cpc>>
       ELSE /\ op' = "get_memory_usage"
            /\ step' = 1
            /\ cpc' = "ready"
            /\ mret' = NoResult
    /\ UNCHANGED <<websocket, session_id, inbox, pending, wire, command, cret, nevents>>
    /\ UNCHANGED <<timeout_count, polls, nret>>
    /\ UNCHANGED nonClientVars

(***************************************************************************)
(* navigate_to_url(url)                                                    *)
(***************************************************************************)
CallNavigate ==
    /\ op = "idle"
    /\ ncalls < MaxCalls
    /\ ncalls' = ncalls + 1
    /\ startState' = websocket
    /\ raised' = FALSE
    /\ timeout_count' = 0
    /\ polls' = 0
    /\ IF websocket = "None"
       THEN /\ nret' = "False"                          \* if not self.websocket: return False
            /\ UNCHANGED <<op, step, cpc>>
       ELSE /\ op' = "navigate_to_url"
            /\ step' = 1
            /\ cpc' = "ready"
            /\ nret' = "none"
    /\ UNCHANGED <<websocket, session_id, inbox, pending, wire, command, cret, mret,
                   nevents>>
    /\ UNCHANGED nonClientVars

\* timeout_count after an iteration of the wait loop that read a message
\* which is not the load event: the loop goes round without counting it
TimeoutCountAfterMessage(n) == n

\* timeout_count after an iteration whose recv timed out (0.1 s)
TimeoutCountAfterTimeout(n) == n + 1

\* an iteration reads a message: the load event returns True, any other
\* message is dropped and the loop goes on
NavPollMessage ==
    /\ op = "navigate_to_url"
    /\ cpc = "poll"
    /\ timeout_count < PollLimit
    /\ inbox # <<>>
    /\ inbox' = Tail(inbox)
    /\ polls' = polls + 1
    /\ IF Head(inbox) = LoadEvent
       THEN /\ nret' = "True"
            /\ op' = "idle"
            /\ cpc' = "ready"
            /\ UNCHANGED timeout_count
       ELSE /\ timeout_count' = TimeoutCountAfterMessage(timeout_count)
            /\ UNCHANGED <<nret, op, cpc>>
    /\ UNCHANGED <<websocket, session_id, pending, wire, step, command, cret, mret,
                   startState, raised, nevents, ncalls>>
    /\ UNCHANGED nonClientVars

\* an iteration's recv times out: except asyncio.TimeoutError
NavPollTimeout ==
    /\ op = "navigate_to_url"
    /\ cpc = "poll"
    /\ timeout_count < PollLimit
    /\ inbox = <<>>
    /\ websocket = "open"
    /\ timeout_count' = TimeoutCountAfterTimeout(timeout_count)
    /\ polls' = polls + 1
    /\ UNCHANGED <<websocket, session_id, inbox, pending, wire, op, step, cpc, command,
                   cret, mret, startState, raised, nevents, ncalls, nret>>
    /\ UNCHANGED nonClientVars

\* the loop ends: the limit is reached, or recv raised on a closed
\* connection (except Exception: break); return True either way
NavReturn ==
    /\ op = "navigate_to_url"
    /\ cpc = "poll"
    /\ \/ timeout_count >= PollLimit
       \/ inbox = <<>> /\ websocket = "closed"
    /\ nret' = "True"
    /\ op' = "idle"
    /\ cpc' = "ready"
    /\ UNCHANGED <<websocket, session_id, inbox, pending, wire, step, command, cret,
                   mret, startState, raised, nevents, ncalls, timeout_count, polls>>
    /\ UNCHANGED nonClientVars

ClientNext ==
    \/ Connect
    \/ Close
    \/ PeerClose
    \/ BrowserEvent
    \/ BrowserRespond
    \/ CallSendCommand
    \/ SendCommandSend
    \/ SendCommandRecv
    \/ SendCommandRecvFails
    \/ CallGetMemoryUsage
    \/ CallNavigate
    \/ NavPollMessage
    \/ NavPollTimeout
    \/ NavReturn

(***************************************************************************)
(* BenchmarkResult (base.py)                                               *)
(***************************************************************************)
\* BenchmarkResult.__init__: a new result is successful and has no error message
BenchmarkResult(fw, benchmark_type, data) ==
    [framework |-> fw, benchmark_type |-> benchmark_type, data |-> data,
     success |-> TRUE, error_message |-> "None"]

\* BenchmarkResult.mark_failed
mark_failed(r, error) == [r EXCEPT !.success = FALSE, !.error_message = error]

\* the Python dict {}
EmptyData == [k \in {} |-> 0]

NoBenchmarkResult == [framework |-> "none"]

(***************************************************************************)
(* Arithmetic of _average_results.  Scores are held in tenths (round(x, 1)),*)
(* standard deviations in hundredths (round(x, 2)), metric scores in       *)
(* thousandths (round(x, 3)); unrounded means are exact fractions.         *)
(***************************************************************************)
RECURSIVE SeqSum(_)
SeqSum(q) == IF q = <<>> THEN 0 ELSE Head(q) + SeqSum(Tail(q))

RECURSIVE SeqSumSq(_)
SeqSumSq(q) == IF q = <<>> THEN 0 ELSE Head(q) * Head(q) + SeqSumSq(Tail(q))

SeqMin(q) == CHOOSE x \in {q[i] : i \in 1..Len(q)} : \A i \in 1..Len(q) : x <= q[i]

SeqMax(q) == CHOOSE x \in {q[i] : i \in 1..Len(q)} : \A i \in 1..Len(q) : x >= q[i]

RECURSIVE Gcd(_, _)
Gcd(a, b) == IF b = 0 THEN a ELSE Gcd(b, a % b)

\* the fraction n / d in lowest terms (n >= 0, d > 0)
Rat(n, d) == LET g == Gcd(n, d) IN [num |-> n \div g, den |-> d \div g]

\* round(n / d, 0): nearest integer, ties to the even one
RoundHalfEven(n, d) ==
    LET q == n \div d
        r == n % d
    IN  IF 2 * r < d THEN q
        ELSE IF 2 * r > d THEN q + 1
        ELSE IF q % 2 = 0 THEN q ELSE q + 1

\* _calculate_std_dev, rounded: round(scale * sqrt(variance)), where variance
\* is the sample variance (N - 1 denominator) of the values and scale2 = scale^2
RoundedStdDev(values, scale2) ==
    LET n == Len(values)
        dd == n * SeqSumSq(values) - SeqSum(values) * SeqSum(values)
        m == n * (n - 1)
    IN  IF n <= 1 THEN 0
        ELSE CHOOSE k \in 0..2000 :
                /\ (2 * k - 1) * (2 * k - 1) * m <= 4 * scale2 * dd \/ k = 0
                /\ 4 * scale2 * dd < (2 * k + 1) * (2 * k + 1) * m

Max(a, b) == IF a >= b THEN a ELSE b

(***************************************************************************)
(* Exact fractions: the floats of the sampler (MB, percent) are modelled   *)
(* as fractions [num, den] in lowest terms with den > 0.                    *)
(***************************************************************************)
R(n) == Rat(n, 1)

Zero == R(0)

RatLess(a, b) == a.num * b.den < b.num * a.den

RatAdd(a, b) == Rat(a.num * b.den + b.num * a.den, a.den * b.den)

RatSub(a, b) == Rat(a.num * b.den - b.num * a.den, a.den * b.den)

RatDiv(a, n) == Rat(a.num, a.den * n)

RatMax(a, b) == IF RatLess(a, b) THEN b ELSE a

RECURSIVE RatSum(_)
RatSum(q) == IF q = <<>> THEN Zero ELSE RatAdd(Head(q), RatSum(Tail(q)))

\* max(values) and min(values) of a non-empty list
RatSeqMax(q) == CHOOSE x \in {q[i] : i \in 1..Len(q)} : \A i \in 1..Len(q) : ~RatLess(x, q[i])

RatSeqMin(q) == CHOOSE x \in {q[i] : i \in 1..Len(q)} : \A i \in 1..Len(q) : ~RatLess(q[i], x)

\* int(x) of a non-negative fraction
RatFloor(a) == a.num \div a.den

(***************************************************************************)
(* SystemResourceMonitor: snapshots of the sandbox's processes             *)
(***************************************************************************)
\* ResourceSnapshot(timestamp, memory_mb, cpu_percent, process_count); the
\* browser fields default to 0
ResourceSnapshot(memory_mb, cpu_percent, process_count) ==
    [memory_mb |-> memory_mb, cpu_percent |-> cpu_percent,
     process_count |-> process_count, browser_heap_mb |-> Zero]

\* _descendant_procs / find_browser_processes: the processes a snapshot reads.
\* With a root pid: the root and its children, [] when the root is gone
\* (psutil.Error); without one: the processes whose name or command line
\* matches the browser name.  `table` lists the processes of the machine.
\* find_browser_processes: the scan goes through the table in order and
\* makes a psutil.Process of each entry whose name or command line matches.
\* The try block encloses the whole loop: the first matching entry that
\* raises NoSuchProcess or AccessDenied there (scan_fails) ends the scan, and
\* the processes collected so far are returned.
FirstScanFailure(table) ==
    LET failing == {i \in 1..Len(table) : table[i].matches /\ table[i].scan_fails}
    IN  IF failing = {} THEN Len(table) + 1
        ELSE CHOOSE i \in failing : \A j \in failing : i <= j

find_browser_processes(table) ==
    SelectSeq(SubSeq(table, 1, FirstScanFailure(table) - 1), LAMBDA p : p.matches)

\* (mutant) a vanished root falls back to the search by name
descendant_procs_NameFallback(pid, root_exists, table) ==
    IF pid = 0 \/ ~root_exists THEN find_browser_processes(table)
    ELSE SelectSeq(table, LAMBDA p : p.descendant)

descendant_procs(pid, root_exists, table) ==
    IF pid = 0 THEN find_browser_processes(table)
    ELSE IF root_exists THEN SelectSeq(table, LAMBDA p : p.descendant)
    ELSE <<>>

\* whether reading the processes found raises an error that the sampling
\* loop does not catch (it catches NoSuchProcess and AccessDenied only)
snapshot_raises(processes) == \E i \in 1..Len(processes) : processes[i].error

\* (mutant) a process that vanishes while it is read is still counted
get_resource_snapshot_CountsVanished(processes) ==
    LET read == SelectSeq(processes, LAMBDA p : ~p.gone)
    IN  [memory_mb |-> RatSum([i \in 1..Len(read) |-> read[i].rss]),
         cpu_percent |-> RatSum([i \in 1..Len(read) |-> read[i].cpu]),
         process_count |-> Len(processes), browser_heap_mb |-> Zero]

\* get_resource_snapshot over the processes found: a process that vanishes
\* while it is read (NoSuchProcess, AccessDenied) is left out and not counted
get_resource_snapshot(processes) ==
    LET read == SelectSeq(processes, LAMBDA p : ~p.gone)
    IN  IF Len(processes) = 0 THEN ResourceSnapshot(Zero, Zero, 0)
        ELSE ResourceSnapshot(RatSum([i \in 1..Len(read) |-> read[i].rss]),
                              RatSum([i \in 1..Len(read) |-> read[i].cpu]),
                              Len(read))

\* establish_baseline: the average of the samples, field by field
AverageSnapshot(snaps) ==
    ResourceSnapshot(
        RatDiv(RatSum([i \in 1..Len(snaps) |-> snaps[i].memory_mb]), Len(snaps)),
        RatDiv(RatSum([i \in 1..Len(snaps) |-> snaps[i].cpu_percent]), Len(snaps)),
        SeqSum([i \in 1..Len(snaps) |-> snaps[i].process_count]) \div Len(snaps))

\* (mutant) a plain difference
ClampedDelta_Plain(a, b) == RatSub(a, b)

\* max(0.0, a - b)
ClampedDelta(a, b) == RatMax(Zero, RatSub(a, b))

\* (mutant) the baseline is subtracted without a floor
app_usage_Unclamped(current, base) ==
    [current EXCEPT !.memory_mb = RatSub(current.memory_mb, base.memory_mb),
                    !.cpu_percent = RatSub(current.cpu_percent, base.cpu_percent),
                    !.process_count = current.process_count - base.process_count]

\* calculate_app_usage(current) with self.baseline = base
app_usage(current, base) ==
    [current EXCEPT !.memory_mb = ClampedDelta(current.memory_mb, base.memory_mb),
                    !.cpu_percent = ClampedDelta(current.cpu_percent, base.cpu_percent),
                    !.process_count = Max(0, current.process_count - base.process_count)]

(***************************************************************************)
(* ResourceUsageRunner._create_interaction_metrics and the summary         *)
(***************************************************************************)
\* (mutant) the span of the samples is reported whatever its size
memory_delta_SpanOnly(memory_values, baseline_set, baseline_memory) ==
    RatSub(RatSeqMax(memory_values), RatSeqMin(memory_values))

\* memory_delta: max - min of the samples; below 1.0 MB, with a baseline
\* set, the mean of the samples above the baseline instead
memory_delta(memory_values, baseline_set, baseline_memory) ==
    LET span == RatSub(RatSeqMax(memory_values), RatSeqMin(memory_values))
        avg_memory == RatDiv(RatSum(memory_values), Len(memory_values))
    IN  IF RatLess(span, R(1)) /\ baseline_set
        THEN ClampedDelta(avg_memory, baseline_memory)
        ELSE span

\* (mutant) heap_delta over all the samples, those without heap data included
heap_delta_AllSamples(snaps) ==
    LET heap_values == [i \in 1..Len(snaps) |-> snaps[i].browser_heap_mb]
        d == RatSub(RatSeqMax(heap_values), RatSeqMin(heap_values))
    IN  IF RatLess(d, Rat(1, 10))
        THEN RatDiv(RatSum(heap_values), Len(heap_values))
        ELSE d

\* heap_delta over the samples that carry heap data (browser_heap_mb > 0):
\* max - min, the mean when that is below 0.1 MB, 0 without heap data
heap_delta(snaps) ==
    LET have == SelectSeq(snaps, LAMBDA sm : RatLess(Zero, sm.browser_heap_mb))
        heap_values == [i \in 1..Len(have) |-> have[i].browser_heap_mb]
    IN  IF heap_values = <<>> THEN Zero
        ELSE LET d == RatSub(RatSeqMax(heap_values), RatSeqMin(heap_values))
             IN  IF RatLess(d, Rat(1, 10))
                 THEN RatDiv(RatSum(heap_values), Len(heap_values))
                 ELSE d

\* InteractionMetrics.to_dict() of _create_interaction_metrics(name, _, samples)
create_interaction_metrics(name, snaps, baseline_set, baseline_memory) ==
    IF snaps = <<>>
    THEN [name |-> name, memory_delta_mb |-> Zero, heap_delta_mb |-> Zero, sample_count |-> 0]
    ELSE [name |-> name,
          memory_delta_mb |->
              memory_delta([i \in 1..Len(snaps) |-> snaps[i].memory_mb],
                           baseline_set, baseline_memory),
          heap_delta_mb |-> heap_delta(snaps),
          sample_count |-> Len(snaps)]

\* (mutant) the score is not capped at 100
calculate_efficiency_score_Uncapped(base_value, delta_value) ==
    IF ~RatLess(Zero, base_value)
    THEN IF ~RatLess(Zero, delta_value) THEN R(95) ELSE R(70)
    ELSE RatMax(Zero, RatSub(R(100), Rat(30 * delta_value.num * base_value.den,
                                         delta_value.den * base_value.num)))

\* _calculate_efficiency_score(base_value, delta_value)
calculate_efficiency_score(base_value, delta_value) ==
    IF ~RatLess(Zero, base_value)
    THEN IF ~RatLess(Zero, delta_value) THEN R(95) ELSE R(70)
    ELSE LET ratio30 == Rat(30 * delta_value.num * base_value.den,
                            delta_value.den * base_value.num)
             score == RatMax(Zero, RatSub(R(100), ratio30))
         IN  IF RatLess(R(100), score) THEN R(100) ELSE score

(***************************************************************************)
(* The profiling pass of ResourceUsageRunner                               *)
(***************************************************************************)
\* the targets a pass may be given
Frameworks == {"react", "vue"}

\* the fixed scenario list of _measure_framework_resources_simple
Scenarios == <<"Initial Load", "Weather Search", "UI Interactions", "Memory Stress">>

\* memory (MB) the sampler may read for the baseline and for the final snapshot
BaselineMemValues == {100}
FinalMemValues == {110, 120}

\* the exceptions launch_isolated_chrome raises
ChromeNotFound == "Chrome/Chromium not found"
PopenFailed == "Popen failed"
\* an error of the process sampler that get_resource_snapshot does not catch
SamplerError == "sampler error"

\* SystemResourceMonitor.calculate_app_usage, memory field
calculate_app_usage(current_mb, baseline_mb) == Max(0, current_mb - baseline_mb)

\* the pages a sandbox browser can show
NoPage == [url |-> "none"]
AboutBlank == [url |-> "about:blank"]

\* BenchmarkRunner.get_framework_url
get_framework_url(fw) == [url |-> fw]

\* launch_isolated_chrome(port, url): the browser is started on `url`
LaunchedPage(url) == url

\* navigate_to_url(url) on a connected client: Page.navigate is sent
PageAfterNavigate(current, url) == url

\* establish_baseline: for i in range(3)
BaselineSampleCount == 3

\* memory (MB) the three samples of a scenario read
ScenarioMemSamples == <<100, 105, 110>>

\* heap (MB) get_memory_usage reports for the three samples of a scenario;
\* without a protocol client the samples keep browser_heap_mb = 0
ScenarioHeapReadings(monitor) ==
    IF monitor = "None" THEN {<<0, 0, 0>>} ELSE {<<0, 0, 0>>, <<8, 8, 16>>}

\* the samples a scenario hands to _create_interaction_metrics
ScenarioSamples(heap) ==
    [i \in 1..Len(ScenarioMemSamples) |->
        [ResourceSnapshot(R(ScenarioMemSamples[i]), Zero, 1) EXCEPT !.browser_heap_mb = R(heap[i])]]

\* the loops made by n calls of asyncio.run after `made` were made: every
\* asyncio.run(coro) makes a new event loop, runs coro on it and closes it
NewLoops(made, n) == (made + 1)..(made + n)

\* protocol calls a scenario makes (send_command, get_memory_usage): none
\* without a client; with one, Initial Load evaluates once and reads the
\* heap three times, the other scenarios do both three times
ScenarioCommands(i, monitor) ==
    IF monitor = "None" THEN 0 ELSE IF i = 1 THEN 4 ELSE 6

\* _calculate_summary_metrics: {} without interactions
calculate_summary_metrics(interactions, app_mb) ==
    IF interactions = <<>> THEN EmptyData
    ELSE LET total_memory_delta ==
                 RatSum([i \in 1..Len(interactions) |-> interactions[i].memory_delta_mb])
         IN  [total_memory_delta_mb |-> total_memory_delta,
              total_heap_delta_mb |->
                  RatSum([i \in 1..Len(interactions) |-> interactions[i].heap_delta_mb]),
              final_app_memory_mb |-> app_mb,
              memory_efficiency_score |->
                  calculate_efficiency_score(R(app_mb), total_memory_delta)]

\* the dict a pass returns from its try block
MeasuredData(fw, baseline_mb, final_mb, interactions) ==
    [framework |-> fw,
     baseline |-> [memory_mb |-> baseline_mb],
     final_usage |-> [total_memory_mb |-> final_mb,
                      app_memory_mb |-> calculate_app_usage(final_mb, baseline_mb)],
     interactions |-> interactions,
     summary |-> calculate_summary_metrics(interactions,
                                           calculate_app_usage(final_mb, baseline_mb))]

\* the dict a pass returns from its except clause
ErrorData(fw, e) ==
    [framework |-> fw,
     error |-> e,
     baseline |-> [memory_mb |-> 0],
     final_usage |-> [total_memory_mb |-> 0, app_memory_mb |-> 0],
     interactions |-> <<>>,
     summary |-> EmptyData]

\* run_single_benchmark: the result built from what the pass returned
SingleBenchmarkResult(fw, data) == BenchmarkResult(fw, "Resource Usage", data)

PassInit ==
    /\ ppc = "idle"
    /\ framework = "none"
    /\ npasses = 0
    /\ chrome_proc = 0
    /\ chrome_user_dir = 0
    /\ browser_monitor = "None"
    /\ baseline = -1
    /\ scen = 1
    /\ interaction_results = <<>>
    /\ scenRaised = {}
    /\ exc = "None"
    /\ resource_data = EmptyData
    /\ teardownLog = <<>>
    /\ teardownFailed = {}
    /\ result = NoBenchmarkResult
    /\ procs = {}
    /\ dirs = {}
    /\ launched = {}
    /\ killFailed = {}
    /\ page = NoPage
    /\ baseline_samples = <<>>
    /\ devtools = "untried"
    /\ commands = 0
    /\ loops = 0
    /\ socket_loop = 0
    /\ socket_loops = {}

\* run_single_benchmark(framework) is called: the pass sets up its locals
StartPass ==
    /\ ppc = "idle"
    /\ npasses < MaxPasses
    /\ \E fw \in Frameworks : framework' = fw
    /\ npasses' = npasses + 1
    /\ chrome_proc' = 0
    /\ chrome_user_dir' = 0
    /\ browser_monitor' = "None"
    /\ baseline' = -1
    /\ scen' = 1
    /\ interaction_results' = <<>>
    /\ scenRaised' = {}
    /\ exc' = "None"
    /\ resource_data' = EmptyData
    /\ teardownLog' = <<>>
    /\ teardownFailed' = {}
    /\ result' = NoBenchmarkResult
    /\ page' = NoPage
    /\ baseline_samples' = <<>>
    /\ devtools' = "untried"
    /\ commands' = 0
    /\ ppc' = "launch"
    /\ UNCHANGED <<procs, dirs, launched, killFailed>>
    /\ loops' = 0
    /\ socket_loop' = 0
    /\ socket_loops' = {}
    /\ UNCHANGED nonPassVars

\* Step 1, launch_isolated_chrome: no browser binary (raises before the
\* profile directory is made)
LaunchNoChrome ==
    /\ ppc = "launch"
    /\ exc' = ChromeNotFound
    /\ ppc' = "except"
    /\ UNCHANGED <<framework, npasses, chrome_proc, chrome_user_dir, browser_monitor,
                   baseline, scen, interaction_results, scenRaised, resource_data,
                   teardownLog, teardownFailed, result, procs, dirs, launched, killFailed>>
    /\ UNCHANGED <<page, baseline_samples, devtools, commands>>
    /\ UNCHANGED loopVars
    /\ UNCHANGED nonPassVars

\* launch_isolated_chrome: mkdtemp made the directory, then Popen raises;
\* nothing is returned, so the pass's locals stay None
LaunchPopenFails ==
    /\ ppc = "launch"
    /\ dirs' = dirs \cup {npasses}
    /\ exc' = PopenFailed
    /\ ppc' = "except"
    /\ UNCHANGED <<framework, npasses, chrome_proc, chrome_user_dir, browser_monitor,
                   baseline, scen, interaction_results, scenRaised, resource_data,
                   teardownLog, teardownFailed, result, procs, launched, killFailed>>
    /\ UNCHANGED <<page, baseline_samples, devtools, commands>>
    /\ UNCHANGED loopVars
    /\ UNCHANGED nonPassVars

\* launch_isolated_chrome returns (proc, udir)
LaunchOk ==
    /\ ppc = "launch"
    /\ dirs' = dirs \cup {npasses}
    /\ procs' = procs \cup {npasses}
    /\ launched' = launched \cup {npasses}
    /\ chrome_proc' = npasses
    /\ chrome_user_dir' = npasses
    /\ page' = LaunchedPage(get_framework_url(framework))
    /\ ppc' = "baseline"
    /\ UNCHANGED <<framework, npasses, browser_monitor, baseline, scen,
                   interaction_results, scenRaised, exc, resource_data, teardownLog,
                   teardownFailed, result, killFailed>>
    /\ UNCHANGED <<baseline_samples, devtools, commands>>
    /\ UNCHANGED loopVars
    /\ UNCHANGED nonPassVars

\* Step 2, establish_baseline
Baseline ==
    /\ ppc = "baseline"
    /\ \E b \in BaselineMemValues :
          /\ baseline_samples' = [i \in 1..BaselineSampleCount |-> [memory_mb |-> b, page |-> page]]
          /\ baseline' = b
    /\ ppc' = "connect"
    /\ UNCHANGED <<framework, npasses, chrome_proc, chrome_user_dir, browser_monitor,
                   scen, interaction_results, scenRaised, exc, resource_data,
                   teardownLog, teardownFailed, result, procs, dirs, launched, killFailed>>
    /\ UNCHANGED <<page, devtools, commands>>
    /\ UNCHANGED loopVars
    /\ UNCHANGED nonPassVars

\* establish_baseline raises (an error of the sampler that is not caught)
BaselineRaises ==
    /\ ppc = "baseline"
    /\ exc' = SamplerError
    /\ ppc' = "except"
    /\ UNCHANGED <<framework, npasses, chrome_proc, chrome_user_dir, browser_monitor,
                   baseline, scen, interaction_results, scenRaised, resource_data,
                   teardownLog, teardownFailed, result, procs, dirs, launched, killFailed>>
    /\ UNCHANGED <<page, baseline_samples, devtools, commands>>
    /\ UNCHANGED loopVars
    /\ UNCHANGED nonPassVars

\* (mutant) the monitor object is kept although it never connected
MonitorAfterConnect_Kept(connected, connectRaised) == "monitor"

\* Step 3: browser_monitor after the connection attempt; it stays set when
\* connect() returned True (whatever navigate_to_url returned) and is None
\* when connect() returned False or anything raised
MonitorAfterConnect(connected, connectRaised) ==
    IF connected /\ ~connectRaised THEN "monitor" ELSE "None"

ConnectDevTools ==
    /\ ppc = "connect"
    /\ \E connected \in BOOLEAN, connectRaised \in BOOLEAN :
          /\ browser_monitor' = MonitorAfterConnect(connected, connectRaised)
          /\ devtools' = IF connected /\ ~connectRaised THEN "connected" ELSE "failed"
          /\ page' = IF connected /\ ~connectRaised
                      THEN PageAfterNavigate(page, get_framework_url(framework))
                      ELSE page
    /\ scen' = 1
    /\ ppc' = "scenarios"
    /\ UNCHANGED <<framework, npasses, chrome_proc, chrome_user_dir, baseline,
                   interaction_results, scenRaised, exc, resource_data, teardownLog,
                   teardownFailed, result, procs, dirs, launched, killFailed>>
    /\ UNCHANGED <<baseline_samples, commands>>
    /\ \E opened \in BOOLEAN :
          \* asyncio.run(browser_monitor.connect()), and, when it returned true,
          \* asyncio.run(browser_monitor.navigate_to_url(framework_url))
          /\ opened = (devtools' = "connected")
          /\ loops' = loops + (IF opened THEN 2 ELSE 1)
          /\ socket_loop' = IF opened THEN loops + 1 ELSE 0
          /\ socket_loops' = IF opened THEN NewLoops(loops, 2) ELSE {}
    /\ UNCHANGED nonPassVars

\* where the scenario loop goes after scenario i
AfterScenario(i) == IF i < Len(Scenarios) THEN "scenarios" ELSE "final"

\* Step 4: scenario scen returns its metrics, which are appended
ScenarioOk ==
    /\ ppc = "scenarios"
    /\ \E heap \in ScenarioHeapReadings(browser_monitor) :
          interaction_results' =
              Append(interaction_results,
                     create_interaction_metrics(Scenarios[scen], ScenarioSamples(heap),
                                                TRUE, R(baseline)))
    /\ commands' = commands + ScenarioCommands(scen, browser_monitor)
    /\ ppc' = AfterScenario(scen)
    /\ scen' = scen + 1
    /\ UNCHANGED <<framework, npasses, chrome_proc, chrome_user_dir, browser_monitor,
                   baseline, scenRaised, exc, resource_data, teardownLog,
                   teardownFailed, result, procs, dirs, launched, killFailed>>
    /\ UNCHANGED <<page, baseline_samples, devtools>>
    /\ loops' = loops + ScenarioCommands(scen, browser_monitor)
    /\ socket_loops' = socket_loops
                          \cup NewLoops(loops, ScenarioCommands(scen, browser_monitor))
    /\ UNCHANGED socket_loop
    /\ UNCHANGED nonPassVars

\* (mutant) the exception of a scenario ends the scenario loop
AfterScenarioRaised_Aborts(i) == "final"

\* where a raising scenario sends the pass: the loop's except clause
\* swallows the exception and the loop goes on
AfterScenarioRaised(i) == AfterScenario(i)

\* scenario scen raises: nothing is appended
ScenarioRaises ==
    /\ ppc = "scenarios"
    /\ scenRaised' = scenRaised \cup {scen}
    /\ commands' = commands + (IF browser_monitor = "None" THEN 0 ELSE 1)
    /\ ppc' = AfterScenarioRaised(scen)
    /\ scen' = scen + 1
    /\ UNCHANGED <<framework, npasses, chrome_proc, chrome_user_dir, browser_monitor,
                   baseline, interaction_results, exc, resource_data, teardownLog,
                   teardownFailed, result, procs, dirs, launched, killFailed>>
    /\ UNCHANGED <<page, baseline_samples, devtools>>
    /\ loops' = loops + (IF browser_monitor = "None" THEN 0 ELSE 1)
    /\ socket_loops' = socket_loops
                          \cup NewLoops(loops, IF browser_monitor = "None" THEN 0 ELSE 1)
    /\ UNCHANGED socket_loop
    /\ UNCHANGED nonPassVars

\* Step 5: final snapshot, and the return statement of the try block
FinalMeasure ==
    /\ ppc = "final"
    /\ \E m \in FinalMemValues :
          resource_data' = MeasuredData(framework, baseline, m, interaction_results)
    /\ ppc' = "td_close"
    /\ UNCHANGED <<framework, npasses, chrome_proc, chrome_user_dir, browser_monitor,
                   baseline, scen, interaction_results, scenRaised, exc, teardownLog,
                   teardownFailed, result, procs, dirs, launched, killFailed>>
    /\ UNCHANGED <<page, baseline_samples, devtools, commands>>
    /\ UNCHANGED loopVars
    /\ UNCHANGED nonPassVars

\* the final snapshot raises
FinalRaises ==
    /\ ppc = "final"
    /\ exc' = SamplerError
    /\ ppc' = "except"
    /\ UNCHANGED <<framework, npasses, chrome_proc, chrome_user_dir, browser_monitor,
                   baseline, scen, interaction_results, scenRaised, resource_data,
                   teardownLog, teardownFailed, result, procs, dirs, launched, killFailed>>
    /\ UNCHANGED <<page, baseline_samples, devtools, commands>>
    /\ UNCHANGED loopVars
    /\ UNCHANGED nonPassVars

\* except Exception as e: the placeholder dict is returned
Except ==
    /\ ppc = "except"
    /\ resource_data' = ErrorData(framework, exc)
    /\ ppc' = "td_close"
    /\ UNCHANGED <<framework, npasses, chrome_proc, chrome_user_dir, browser_monitor,
                   baseline, scen, interaction_results, scenRaised, exc, teardownLog,
                   teardownFailed, result, procs, dirs, launched, killFailed>>
    /\ UNCHANGED <<page, baseline_samples, devtools, commands>>
    /\ UNCHANGED loopVars
    /\ UNCHANGED nonPassVars

(***************************************************************************)
(* finally: the three guarded teardown steps                               *)
(***************************************************************************)
\* (mutant) an unguarded finally block: a failing step ends the teardown
AfterTeardownStep_Unguarded(stepName, failed) ==
    IF failed THEN "return"
    ELSE CASE stepName = "close" -> "td_terminate"
           [] stepName = "terminate" -> "td_rmtree"
           [] stepName = "rmtree" -> "return"

\* the step the finally block takes after `stepName`, whether or not it failed
AfterTeardownStep(stepName, failed) ==
    CASE stepName = "close" -> "td_terminate"
      [] stepName = "terminate" -> "td_rmtree"
      [] stepName = "rmtree" -> "return"

\* if browser_monitor: try: asyncio.run(browser_monitor.close()) except Exception: pass
TeardownClose ==
    /\ ppc = "td_close"
    /\ IF browser_monitor # "None"
       THEN \E failed \in BOOLEAN :
               /\ teardownLog' = Append(teardownLog, "close")
               /\ teardownFailed' = IF failed THEN teardownFailed \cup {"close"}
                                    ELSE teardownFailed
               /\ ppc' = AfterTeardownStep("close", failed)
       ELSE /\ ppc' = "td_terminate"
            /\ UNCHANGED <<teardownLog, teardownFailed>>
    /\ UNCHANGED <<framework, npasses, chrome_proc, chrome_user_dir, browser_monitor,
                   baseline, scen, interaction_results, scenRaised, exc, resource_data,
                   result, procs, dirs, launched, killFailed>>
    /\ UNCHANGED <<page, baseline_samples, devtools, commands>>
    /\ loops' = loops + (IF browser_monitor = "None" THEN 0 ELSE 1)
    /\ socket_loops' = socket_loops
                          \cup NewLoops(loops, IF browser_monitor = "None" THEN 0 ELSE 1)
    /\ UNCHANGED socket_loop
    /\ UNCHANGED nonPassVars

\* (mutant) the finally block forgets the browser process
TeardownTerminate_Skipped ==
    /\ ppc = "td_terminate"
    /\ ppc' = "td_rmtree"
    /\ UNCHANGED <<framework, npasses, chrome_proc, chrome_user_dir, browser_monitor,
                   baseline, scen, interaction_results, scenRaised, exc, resource_data,
                   teardownLog, teardownFailed, result, procs, dirs, launched, killFailed>>
    /\ UNCHANGED <<page, baseline_samples, devtools, commands>>
    /\ UNCHANGED loopVars
    /\ UNCHANGED nonPassVars

\* if chrome_proc: terminate(), wait(5); on an exception kill(), wait(2); on
\* an exception again: pass.  outcome: "terminated" | "killed" | "survived"
TeardownTerminate ==
    /\ ppc = "td_terminate"
    /\ IF chrome_proc # 0
       THEN \E outcome \in {"terminated", "killed", "survived"} :
               /\ teardownLog' = Append(teardownLog, "terminate")
               /\ teardownFailed' = IF outcome # "terminated"
                                    THEN teardownFailed \cup {"terminate"}
                                    ELSE teardownFailed
               /\ procs' = IF outcome = "survived" THEN procs ELSE procs \ {chrome_proc}
               /\ killFailed' = IF outcome = "survived" THEN killFailed \cup {chrome_proc}
                                ELSE killFailed
               /\ ppc' = AfterTeardownStep("terminate", outcome # "terminated")
       ELSE /\ ppc' = "td_rmtree"
            /\ UNCHANGED <<teardownLog, teardownFailed, procs, killFailed>>
    /\ UNCHANGED <<framework, npasses, chrome_proc, chrome_user_dir, browser_monitor,
                   baseline, scen, interaction_results, scenRaised, exc, resource_data,
                   result, dirs, launched>>
    /\ UNCHANGED <<page, baseline_samples, devtools, commands>>
    /\ UNCHANGED loopVars
    /\ UNCHANGED nonPassVars

\* if chrome_user_dir: shutil.rmtree(chrome_user_dir, ignore_errors=True)
TeardownRmtree ==
    /\ ppc = "td_rmtree"
    /\ IF chrome_user_dir # 0
       THEN \E removed \in BOOLEAN :
               /\ teardownLog' = Append(teardownLog, "rmtree")
               /\ teardownFailed' = IF ~removed THEN teardownFailed \cup {"rmtree"}
                                    ELSE teardownFailed
               /\ dirs' = IF removed THEN dirs \ {chrome_user_dir} ELSE dirs
               /\ ppc' = AfterTeardownStep("rmtree", ~removed)
       ELSE /\ ppc' = "return"
            /\ UNCHANGED <<teardownLog, teardownFailed, dirs>>
    /\ UNCHANGED <<framework, npasses, chrome_proc, chrome_user_dir, browser_monitor,
                   baseline, scen, interaction_results, scenRaised, exc, resource_data,
                   result, procs, launched, killFailed>>
    /\ UNCHANGED <<page, baseline_samples, devtools, commands>>
    /\ UNCHANGED loopVars
    /\ UNCHANGED nonPassVars

\* the pass returns its dict and run_single_benchmark wraps it
ReturnPass ==
    /\ ppc = "return"
    /\ result' = SingleBenchmarkResult(framework, resource_data)
    /\ ppc' = "idle"
    /\ UNCHANGED <<framework, npasses, chrome_proc, chrome_user_dir, browser_monitor,
                   baseline, scen, interaction_results, scenRaised, exc, resource_data,
                   teardownLog, teardownFailed, procs, dirs, launched, killFailed>>
    /\ UNCHANGED <<page, baseline_samples, devtools, commands>>
    /\ UNCHANGED loopVars
    /\ UNCHANGED nonPassVars

PassNext ==
    \/ StartPass
    \/ LaunchNoChrome
    \/ LaunchPopenFails
    \/ LaunchOk
    \/ Baseline
    \/ BaselineRaises
    \/ ConnectDevTools
    \/ ScenarioOk
    \/ ScenarioRaises
    \/ FinalMeasure
    \/ FinalRaises
    \/ Except
    \/ TeardownClose
    \/ TeardownTerminate
    \/ TeardownRmtree
    \/ ReturnPass

(***************************************************************************)
(* BenchmarkRunner._average_results                                        *)
(***************************************************************************)
HasKey(d, k) == k \in DOMAIN d

\* values = [r.data["scores"][name] for r in results if name in r.data.get("scores", {})]
ScoreValues(rs, name) ==
    LET have == SelectSeq(rs, LAMBDA r : HasKey(r.data, "scores") /\ name \in DOMAIN r.data.scores)
    IN  [i \in 1..Len(have) |-> have[i].data.scores[name]]

\* the metric dicts of `name` over the results that have it
MetricsOf(rs, name) ==
    LET have == SelectSeq(rs, LAMBDA r : HasKey(r.data, "metrics") /\ name \in DOMAIN r.data.metrics)
    IN  [i \in 1..Len(have) |-> have[i].data.metrics[name]]

\* avg_score = round(sum(values) / len(values), 1)
AverageScore(values) == RoundHalfEven(SeqSum(values), Len(values))

AveragedScores(rs) ==
    [name \in DOMAIN rs[1].data.scores |-> AverageScore(ScoreValues(rs, name))]

ScoreStatistics(rs) ==
    [name \in DOMAIN rs[1].data.scores |->
        LET values == ScoreValues(rs, name)
        IN  [min |-> SeqMin(values), max |-> SeqMax(values),
             std_dev |-> IF Len(values) > 1 THEN RoundedStdDev(values, 100) ELSE 0]]

\* the display value written for an averaged metric: "s" in display_values[0]
\* is tried first, so a value in "ms" is formatted as seconds too
AveragedDisplayValue(display0, avg) ==
    IF display0 \in {"s", "ms"} THEN [unit |-> "s", tenths |-> RoundHalfEven(avg.num, avg.den * 100)]
    ELSE [unit |-> "", thousandths |-> RoundHalfEven(avg.num * 1000, avg.den)]

AveragedMetrics(rs) ==
    [name \in DOMAIN rs[1].data.metrics |->
        LET ms == MetricsOf(rs, name)
            numeric_values == [i \in 1..Len(ms) |-> ms[i].value]
            score_values == [i \in 1..Len(ms) |-> ms[i].score]
            avg_value == Rat(SeqSum(numeric_values), Len(numeric_values))
        IN  [value |-> avg_value,
             displayValue |-> AveragedDisplayValue(ms[1].displayValue.unit, avg_value),
             score |-> Rat(SeqSum(score_values), Len(score_values))]]

MetricStatistics(rs) ==
    [name \in DOMAIN rs[1].data.metrics |->
        LET ms == MetricsOf(rs, name)
            numeric_values == [i \in 1..Len(ms) |-> ms[i].value]
            score_values == [i \in 1..Len(ms) |-> ms[i].score]
        IN  [min |-> SeqMin(numeric_values), max |-> SeqMax(numeric_values),
             std_dev |-> IF Len(numeric_values) > 1
                         THEN RoundedStdDev(numeric_values, 10000) ELSE 0,
             score_min |-> SeqMin(score_values), score_max |-> SeqMax(score_values),
             score_std_dev |-> IF Len(score_values) > 1
                               THEN RoundedStdDev(score_values, 1) ELSE 0]]

\* results[0].data after the call: averaged_data is a shallow copy, so the
\* averages written into its "scores" and "metrics" land in the first result
FirstDataAfterAveraging(rs) ==
    LET d0 == rs[1].data
        d1 == IF HasKey(d0, "scores") THEN [d0 EXCEPT !.scores = AveragedScores(rs)] ELSE d0
    IN  IF HasKey(d0, "metrics") THEN [d1 EXCEPT !.metrics = AveragedMetrics(rs)] ELSE d1

\* the statistics dict: one entry per section that the data has
Statistics(rs) ==
    LET d0 == rs[1].data
        keys == {k \in {"scores", "metrics"} : HasKey(d0, k)}
    IN  [k \in keys |-> IF k = "scores" THEN ScoreStatistics(rs) ELSE MetricStatistics(rs)]

\* (mutant) the execution metadata counts the failed runs as successful
ExecutionStats_FailedCounted(rs, failed_count) ==
    [total_executions |-> Len(rs) + failed_count,
     successful_executions |-> Len(rs) + failed_count,
     failed_executions |-> 0,
     averaged |-> TRUE,
     statistics |-> Statistics(rs)]

\* averaged_data["execution_stats"]
ExecutionStats(rs, failed_count) ==
    [total_executions |-> Len(rs) + failed_count,
     successful_executions |-> Len(rs),
     failed_executions |-> failed_count,
     averaged |-> TRUE,
     statistics |-> Statistics(rs)]

\* the data of the averaged result
AveragedData(rs, failed_count) ==
    ("execution_stats" :> ExecutionStats(rs, failed_count)) @@ FirstDataAfterAveraging(rs)

average_results(fw, benchmark_name, rs, failed_count) ==
    IF rs = <<>> THEN BenchmarkResult(fw, benchmark_name, EmptyData)
    ELSE BenchmarkResult(fw, benchmark_name, AveragedData(rs, failed_count))

(***************************************************************************)
(* run_single_benchmark as one step of the runner                          *)
(***************************************************************************)
\* the argument lists run_all_frameworks is called with
TargetLists == {<<"react">>, <<"react", "vue">>}

\* the interactions of a pass whose four scenarios succeeded without a client
FullInteractions(b) ==
    [i \in 1..Len(Scenarios) |->
        create_interaction_metrics(Scenarios[i], ScenarioSamples(<<0, 0, 0>>), TRUE, R(b))]

\* ResourceUsageRunner: what a pass can return, for a launch failure and for
\* a measured pass (all scenarios succeeded)
ResourceRunOutcomes(fw) ==
    {[raised |-> FALSE, result |-> SingleBenchmarkResult(fw, ErrorData(fw, ChromeNotFound))]}
    \cup
    {[raised |-> FALSE,
      result |-> SingleBenchmarkResult(fw, MeasuredData(fw, b, m, FullInteractions(b)))] :
        b \in BaselineMemValues, m \in FinalMemValues}

\* the audits Lighthouse may report: performance score (tenths), and the
\* value, display unit and score (thousandths) of first-contentful-paint
Audits == {[perf |-> 800, fcp |-> 20, fcpScore |-> 500],
           [perf |-> 900, fcp |-> 10, fcpScore |-> 900]}

\* LighthouseRunner._extract_lighthouse_data
LighthouseData(fw, a) ==
    [url |-> fw,
     scores |-> [performance |-> a.perf],
     metrics |-> [fcp |-> [value |-> a.fcp,
                           displayValue |-> [unit |-> "s", tenths |-> RoundHalfEven(a.fcp, 100)],
                           score |-> a.fcpScore]]]

\* LighthouseRunner._create_error_result
create_error_result(fw, benchmark_name, error) ==
    mark_failed(BenchmarkResult(fw, benchmark_name, EmptyData), error)

\* LighthouseRunner.run_single_benchmark: Chrome cannot be made ready (an
\* error result), making it ready raises (outside the try), the audit times
\* out, or it yields data
LighthouseRunOutcomes(fw) ==
    {[raised |-> TRUE, result |-> NoBenchmarkResult]}
    \cup
    {[raised |-> FALSE, result |-> create_error_result(fw, "Lighthouse", e)] :
        e \in {"Chrome not available", "Lighthouse audit timed out"}}
    \cup
    {[raised |-> FALSE, result |-> BenchmarkResult(fw, "Lighthouse", LighthouseData(fw, a))] :
        a \in Audits}

RunOutcomes(k, fw) ==
    IF k = "Lighthouse" THEN LighthouseRunOutcomes(fw) ELSE ResourceRunOutcomes(fw)

(***************************************************************************)
(* BenchmarkRunner.run_all_frameworks and run_multiple_executions          *)
(***************************************************************************)
RunnerInit ==
    /\ kind \in {"Resource Usage", "Lighthouse"}
    /\ calls = 0
    /\ rpc = "idle"
    /\ frameworks = <<>>
    /\ executions = 0
    /\ fi = 0
    /\ execution = 0
    /\ successful_results = <<>>
    /\ failed_results = <<>>
    /\ results = <<>>
    /\ returned = <<>>
    /\ runs = <<>>
    /\ outcomes = <<>>

\* run_all_frameworks(frameworks, executions): the health check passes
CallRunAllFrameworks ==
    /\ rpc = "idle"
    /\ \E fws \in TargetLists, n \in 1..MaxExecutions :
          /\ frameworks' = fws
          /\ executions' = n
    /\ fi' = 1
    /\ outcomes' = <<>>
    /\ rpc' = "target"
    /\ calls' = calls + 1
    /\ UNCHANGED <<kind, execution, successful_results, failed_results, results,
                   returned, runs>>
    /\ UNCHANGED nonRunnerVars

\* run_all_frameworks(frameworks) is called again on the same runner after
\* an earlier call returned, the health check passing: nothing resets
\* self.results, which __init__ alone sets to []
CallRunAllFrameworksAgain ==
    /\ rpc = "done"
    /\ calls < MaxRunnerCalls
    /\ \E fws \in TargetLists : frameworks' = fws
    /\ executions' = 1
    /\ fi' = 1
    /\ outcomes' = <<>>
    /\ rpc' = "target"
    /\ calls' = calls + 1
    /\ UNCHANGED <<kind, execution, successful_results, failed_results, results,
                   returned, runs>>
    /\ UNCHANGED nonRunnerVars

\* run_all_frameworks: check_server_health() is False: return []
CallRunAllFrameworksNoServer ==
    /\ rpc = "idle"
    /\ \E fws \in TargetLists, n \in 1..MaxExecutions :
          /\ frameworks' = fws
          /\ executions' = n
    /\ returned' = <<>>
    /\ rpc' = "done"
    /\ calls' = calls + 1
    /\ UNCHANGED <<kind, fi, execution, successful_results, failed_results, results,
                   runs, outcomes>>
    /\ UNCHANGED nonRunnerVars

\* (mutant) the error result of a raising target is made but not recorded
ResultsAfterException_Dropped(rs, fw, benchmark_name) == rs

\* except Exception as e: a failed result is appended for the target
ResultsAfterException(rs, fw, benchmark_name) ==
    Append(rs, mark_failed(BenchmarkResult(fw, benchmark_name, EmptyData), "exception"))

\* the loop body for executions == 1: run_single_benchmark and append
RunTargetOnce ==
    /\ rpc = "target"
    /\ fi <= Len(frameworks)
    /\ executions = 1
    /\ \E o \in RunOutcomes(kind, frameworks[fi]) :
          IF o.raised
          THEN /\ results' = ResultsAfterException(results, frameworks[fi], kind)
               /\ outcomes' = Append(outcomes, "raised")
          ELSE /\ results' = Append(results, o.result)
               /\ outcomes' = Append(outcomes, IF o.result.success THEN "ok" ELSE "failed")
    /\ fi' = fi + 1
    /\ UNCHANGED <<kind, calls, rpc, frameworks, executions, execution, successful_results,
                   failed_results, returned, runs>>
    /\ UNCHANGED nonRunnerVars

\* the loop body for executions > 1 enters run_multiple_executions
BeginMultipleExecutions ==
    /\ rpc = "target"
    /\ fi <= Len(frameworks)
    /\ executions > 1
    /\ successful_results' = <<>>
    /\ failed_results' = <<>>
    /\ runs' = <<>>
    /\ execution' = 0
    /\ rpc' = "exec"
    /\ UNCHANGED <<kind, calls, frameworks, executions, fi, results, returned, outcomes>>
    /\ UNCHANGED nonRunnerVars

\* one iteration of run_multiple_executions: the run returns a result
RunExecution ==
    /\ rpc = "exec"
    /\ execution < executions
    /\ \E o \in RunOutcomes(kind, frameworks[fi]) :
          /\ ~o.raised
          /\ runs' = Append(runs, o.result)
          /\ IF o.result.success
             THEN /\ successful_results' = Append(successful_results, o.result)
                  /\ UNCHANGED failed_results
             ELSE /\ failed_results' = Append(failed_results, o.result)
                  /\ UNCHANGED successful_results
    /\ execution' = execution + 1
    /\ UNCHANGED <<kind, calls, rpc, frameworks, executions, fi, results, returned, outcomes>>
    /\ UNCHANGED nonRunnerVars

\* a run raises: the exception leaves run_multiple_executions and is caught
\* by run_all_frameworks
RunExecutionRaises ==
    /\ rpc = "exec"
    /\ execution < executions
    /\ \E o \in RunOutcomes(kind, frameworks[fi]) : o.raised
    /\ results' = ResultsAfterException(results, frameworks[fi], kind)
    /\ outcomes' = Append(outcomes, "raised")
    /\ fi' = fi + 1
    /\ rpc' = "target"
    /\ UNCHANGED <<kind, calls, frameworks, executions, execution, successful_results,
                   failed_results, returned, runs>>
    /\ UNCHANGED nonRunnerVars

\* (mutant) with no successful run, the last failure is returned
AllFailedResult_Last(fw, benchmark_name, failed) ==
    IF failed # <<>> THEN failed[Len(failed)] ELSE BenchmarkResult(fw, benchmark_name, EmptyData)

\* if not successful_results: return failed_results[0] if failed_results else ...
AllFailedResult(fw, benchmark_name, failed) ==
    IF failed # <<>> THEN failed[1] ELSE BenchmarkResult(fw, benchmark_name, EmptyData)

\* what run_multiple_executions returns after its loop
MultipleExecutionsResult(fw, benchmark_name, successful, failed) ==
    IF successful = <<>> THEN AllFailedResult(fw, benchmark_name, failed)
    ELSE average_results(fw, benchmark_name, successful, Len(failed))

\* run_multiple_executions returns and run_all_frameworks appends the result;
\* averaging has written into the first successful result
FinishMultipleExecutions ==
    /\ rpc = "exec"
    /\ execution = executions
    /\ LET r == MultipleExecutionsResult(frameworks[fi], kind, successful_results,
                                         failed_results)
       IN  /\ results' = Append(results, r)
           /\ outcomes' = Append(outcomes, IF r.success THEN "ok" ELSE "failed")
    /\ successful_results' =
          IF successful_results = <<>> THEN successful_results
          ELSE [successful_results EXCEPT
                   ![1].data = FirstDataAfterAveraging(successful_results)]
    /\ fi' = fi + 1
    /\ rpc' = "target"
    /\ UNCHANGED <<kind, calls, frameworks, executions, execution, failed_results, returned, runs>>
    /\ UNCHANGED nonRunnerVars

\* the for loop is over: finally (cleanup), return self.results
FinishRunAllFrameworks ==
    /\ rpc = "target"
    /\ fi > Len(frameworks)
    /\ returned' = results
    /\ rpc' = "done"
    /\ UNCHANGED <<kind, calls, frameworks, executions, fi, execution, successful_results,
                   failed_results, results, runs, outcomes>>
    /\ UNCHANGED nonRunnerVars

RunnerNext ==
    \/ CallRunAllFrameworks
    \/ CallRunAllFrameworksNoServer
    \/ RunTargetOnce
    \/ BeginMultipleExecutions
    \/ RunExecution
    \/ RunExecutionRaises
    \/ FinishMultipleExecutions
    \/ FinishRunAllFrameworks

(***************************************************************************)
(* The sampler as a machine: establish_baseline, then either the samples   *)
(* of one scenario and _create_interaction_metrics, or the final snapshot  *)
(* and calculate_app_usage                                                 *)
(***************************************************************************)
\* a process of the machine: its resident memory (MB) and CPU (percent),
\* whether it matches the browser name, whether it descends from the root
\* pid, what reading it does: it vanishes or denies access (gone) or fails
\* otherwise (error), and whether making a psutil.Process of it in the scan
\* by name raises NoSuchProcess or AccessDenied (scan_fails)
Proc(rss, cpu) ==
    [rss |-> rss, cpu |-> cpu, matches |-> TRUE, descendant |-> TRUE,
     gone |-> FALSE, error |-> FALSE, scan_fails |-> FALSE]

\* the process tables a snapshot may meet
ProcessTables ==
    { <<>>,
      <<Proc(R(100), R(5))>>,
      <<Proc(Rat(502, 5), Zero)>>,
      <<Proc(R(105), R(5))>>,
      <<Proc(R(110), Rat(25, 2))>>,
      <<[Proc(R(100), R(5)) EXCEPT !.gone = TRUE], Proc(R(60), R(1))>>,
      <<[Proc(R(70), R(1)) EXCEPT !.matches = FALSE, !.descendant = FALSE]>>,
      <<[Proc(R(100), R(5)) EXCEPT !.scan_fails = TRUE], Proc(R(60), R(1))>>,
      <<[Proc(R(100), R(5)) EXCEPT !.error = TRUE]>> }

\* the process tables the samples of the baseline meet
BaselineTables ==
    { <<>>,
      <<Proc(R(100), R(5))>>,
      <<Proc(R(110), Rat(25, 2))>>,
      <<[Proc(R(100), R(5)) EXCEPT !.gone = TRUE], Proc(R(60), R(1))>>,
      <<[Proc(R(100), R(5)) EXCEPT !.error = TRUE]>> }

\* heap (MB) a sample may carry; 0 when there is no heap data
HeapValues == {Zero, R(8), Rat(161, 20), R(16)}

\* the process table under which the samples carry heap data
HeapTable == <<Proc(R(100), R(5))>>

NoMetrics == [name |-> "none"]

\* before a monitor is constructed
SamplerInit ==
    /\ spc = "new"
    /\ root_pid = 0
    /\ has_baseline = FALSE
    /\ self_baseline = ResourceSnapshot(Zero, Zero, 0)
    /\ base_samples = <<>>
    /\ snapshot = ResourceSnapshot(Zero, Zero, 0)
    /\ zero_target = FALSE
    /\ vanished = FALSE
    /\ table_read = <<>>
    /\ found = <<>>
    /\ samples = <<>>
    /\ metrics = NoMetrics
    /\ usage = ResourceSnapshot(Zero, Zero, 0)
    /\ usage_of = "none"

\* whether the machine (root_exists, table) has no process of the target:
\* the root pid is gone, or, without a root pid, no process matches the name
ZeroTarget(root_exists, table) ==
    IF root_pid = 0 THEN \A i \in 1..Len(table) : ~table[i].matches
    ELSE ~root_exists

\* get_resource_snapshot() in the environment (root_exists, table): either
\* it raises (the sampler is left at "raised"), or it returns a snapshot,
\* which `next` says what to do with.  A root that exists is in the table.
TakeSnapshot(root_exists, table, heap, next) ==
    LET processes == descendant_procs(root_pid, root_exists, table)
        sample == [get_resource_snapshot(processes) EXCEPT !.browser_heap_mb = heap]
    IN  /\ (root_pid # 0 /\ root_exists) => \E i \in 1..Len(table) : table[i].descendant
        /\ zero_target' = ZeroTarget(root_exists, table)
        /\ vanished' = \E i \in 1..Len(processes) : processes[i].gone
        /\ table_read' = table
        /\ found' = processes
        /\ IF snapshot_raises(processes)
           THEN /\ spc' = "raised"
                /\ UNCHANGED <<snapshot, base_samples, samples>>
           ELSE /\ snapshot' = sample
                /\ CASE next = "baseline" ->
                          /\ base_samples' = Append(base_samples, sample)
                          /\ UNCHANGED <<spc, samples>>
                     [] next = "sampling" ->
                          /\ samples' = Append(samples, sample)
                          /\ spc' = "sampling"
                          /\ UNCHANGED base_samples
                     [] next = "final" ->
                          /\ spc' = "done"
                          /\ UNCHANGED <<base_samples, samples>>

\* SystemResourceMonitor(browser_name, root_pid): without a root pid (0), or
\* with the pid of the sandbox's browser
NewMonitor ==
    /\ spc = "new"
    /\ root_pid' \in {0, 1}
    /\ spc' = "idle"
    /\ UNCHANGED <<has_baseline, self_baseline, base_samples, snapshot, zero_target,
                   vanished, table_read, found, samples, metrics, usage, usage_of>>
    /\ UNCHANGED nonSamplerVars

\* establish_baseline is called
EstablishBaseline ==
    /\ spc = "idle"
    /\ ~has_baseline
    /\ spc' = "baseline"
    /\ base_samples' = <<>>
    /\ UNCHANGED <<root_pid, has_baseline, self_baseline, snapshot, zero_target,
                   vanished, table_read, found, samples, metrics, usage, usage_of>>
    /\ UNCHANGED nonSamplerVars

\* establish_baseline: sample = self.get_resource_snapshot(); samples.append(sample)
BaselineSample ==
    /\ spc = "baseline"
    /\ Len(base_samples) < BaselineSampleCount
    /\ \E root_exists \in BOOLEAN, table \in BaselineTables :
          TakeSnapshot(root_exists, table, Zero, "baseline")
    /\ UNCHANGED <<root_pid, has_baseline, self_baseline, metrics, usage, usage_of>>
    /\ UNCHANGED nonSamplerVars

\* establish_baseline: the samples are averaged into self.baseline, and the
\* call returns (its local list is gone)
BaselineAverage ==
    /\ spc = "baseline"
    /\ Len(base_samples) = BaselineSampleCount
    /\ self_baseline' = AverageSnapshot(base_samples)
    /\ has_baseline' = TRUE
    /\ base_samples' = <<>>
    /\ spc' = "idle"
    /\ UNCHANGED <<root_pid, snapshot, zero_target, vanished, table_read, found, samples,
                   metrics, usage, usage_of>>
    /\ UNCHANGED nonSamplerVars

\* a scenario takes one of its three samples, with the heap data it has
ScenarioSample ==
    /\ spc \in {"idle", "sampling"}
    /\ Len(samples) < Len(ScenarioMemSamples)
    /\ \E root_exists \in BOOLEAN, table \in ProcessTables, heap \in HeapValues :
          /\ heap # Zero => (root_exists /\ table = HeapTable)
          /\ TakeSnapshot(root_exists, table, heap, "sampling")
    /\ UNCHANGED <<root_pid, has_baseline, self_baseline, metrics, usage, usage_of>>
    /\ UNCHANGED nonSamplerVars

\* the scenario returns self._create_interaction_metrics(name, start_time, samples)
CreateInteractionMetrics ==
    /\ spc = "sampling"
    /\ Len(samples) = Len(ScenarioMemSamples)
    /\ metrics' = create_interaction_metrics("Initial Load", samples, has_baseline,
                                             self_baseline.memory_mb)
    /\ spc' = "measured"
    /\ UNCHANGED <<root_pid, has_baseline, self_baseline, base_samples, snapshot,
                   zero_target, vanished, table_read, found, samples, usage, usage_of>>
    /\ UNCHANGED nonSamplerVars

\* Step 5 of a pass: final_snapshot = self.system_monitor.get_resource_snapshot()
\* (it reads the processes afresh, whatever the scenarios sampled)
FinalSnapshot ==
    /\ spc = "idle"
    /\ \E root_exists \in BOOLEAN, table \in ProcessTables :
          TakeSnapshot(root_exists, table, Zero, "final")
    /\ UNCHANGED <<root_pid, has_baseline, self_baseline, metrics, usage, usage_of>>
    /\ UNCHANGED nonSamplerVars

\* calculate_app_usage(current): current itself without a baseline
calculate_app_usage_of(current, baseline_set, base) ==
    IF ~baseline_set THEN current ELSE app_usage(current, base)

\* calculate_app_usage is applied to the final snapshot, or to the baseline
CalculateAppUsage ==
    /\ spc = "done"
    /\ usage_of = "none"
    /\ \E of \in {"snapshot"} \cup (IF has_baseline THEN {"baseline"} ELSE {}) :
          /\ usage_of' = of
          /\ usage' = calculate_app_usage_of(IF of = "baseline" THEN self_baseline
                                             ELSE snapshot,
                                             has_baseline, self_baseline)
    /\ UNCHANGED <<spc, root_pid, has_baseline, self_baseline, base_samples, snapshot,
                   zero_target, vanished, table_read, found, samples, metrics>>
    /\ UNCHANGED nonSamplerVars

SamplerNext ==
    \/ NewMonitor
    \/ EstablishBaseline
    \/ BaselineSample
    \/ BaselineAverage
    \/ ScenarioSample
    \/ CreateInteractionMetrics
    \/ FinalSnapshot
    \/ CalculateAppUsage

(***************************************************************************)
(* Two coroutines of one event loop calling send_command on the same       *)
(* connected monitor.  A coroutine runs until it awaits: the command dict  *)
(* is built and handed to websocket.send() in one step, the coroutine      *)
(* then calls websocket.recv(), and self.session_id is advanced only after *)
(* recv() has returned.  send_command takes no lock.                       *)
(***************************************************************************)
Callers == {1, 2}

\* the request a caller writes, and the browser's answer to it; `caller`
\* records whose request it is (the messages themselves carry the id only)
Request(sid, caller) == [id |-> CommandId(sid), caller |-> caller]

ResponseTo(request) == [kind |-> "response", id |-> request.id, caller |-> request.caller]

\* the connected monitor before any command
TasksInit ==
    /\ tasks_pc = [t \in Callers |-> "idle"]
    /\ tasks_command = [t \in Callers |-> 0]
    /\ tasks_ret = [t \in Callers |-> NoResult]
    /\ shared_session_id = 1
    /\ shared_inbox = <<>>
    /\ shared_pending = <<>>
    /\ recv_waiter = 0
    /\ tasks_calls = 0

\* command = {"id": self.session_id, ...}; await self.websocket.send(...)
TaskSend(t) ==
    /\ tasks_pc[t] = "idle"
    /\ tasks_calls < MaxTaskCalls
    /\ tasks_calls' = tasks_calls + 1
    /\ tasks_command' = [tasks_command EXCEPT ![t] = CommandId(shared_session_id)]
    /\ shared_pending' = Append(shared_pending, Request(shared_session_id, t))
    /\ tasks_pc' = [tasks_pc EXCEPT ![t] = "sent"]
    /\ tasks_ret' = [tasks_ret EXCEPT ![t] = NoResult]
    /\ UNCHANGED <<shared_session_id, shared_inbox, recv_waiter>>
    /\ UNCHANGED nonTasksVars

\* response = await self.websocket.recv(): the caller suspends in recv() when
\* nobody else is suspended there; the websockets library refuses a second
\* concurrent recv() with an exception, which send_command turns into {}
TaskEnterRecv(t) ==
    /\ tasks_pc[t] = "sent"
    /\ IF recv_waiter = 0
       THEN /\ recv_waiter' = t
            /\ tasks_pc' = [tasks_pc EXCEPT ![t] = "recv"]
            /\ UNCHANGED tasks_ret
       ELSE /\ tasks_ret' = [tasks_ret EXCEPT ![t] = EmptyDict]
            /\ tasks_pc' = [tasks_pc EXCEPT ![t] = "idle"]
            /\ UNCHANGED recv_waiter
    /\ UNCHANGED <<tasks_command, shared_session_id, shared_inbox, shared_pending,
                   tasks_calls>>
    /\ UNCHANGED nonTasksVars

\* recv() returns the next message of the socket; self.session_id += 1;
\* return json.loads(response)
TaskRecv(t) ==
    /\ tasks_pc[t] = "recv"
    /\ recv_waiter = t
    /\ shared_inbox # <<>>
    /\ tasks_ret' = [tasks_ret EXCEPT ![t] = RecvMessage(shared_inbox)]
    /\ shared_inbox' = Tail(shared_inbox)
    /\ shared_session_id' = NextSessionId(shared_session_id)
    /\ recv_waiter' = 0
    /\ tasks_pc' = [tasks_pc EXCEPT ![t] = "idle"]
    /\ UNCHANGED <<tasks_command, shared_pending, tasks_calls>>
    /\ UNCHANGED nonTasksVars

\* the browser answers one of the requests it has received, in any order
TaskBrowserRespond ==
    /\ \E i \in 1..Len(shared_pending) :
          /\ shared_inbox' = Append(shared_inbox, ResponseTo(shared_pending[i]))
          /\ shared_pending' = [j \in 1..(Len(shared_pending) - 1) |->
                                   IF j < i THEN shared_pending[j] ELSE shared_pending[j + 1]]
    /\ UNCHANGED <<tasks_pc, tasks_command, tasks_ret, shared_session_id, recv_waiter,
                   tasks_calls>>
    /\ UNCHANGED nonTasksVars

TasksNext ==
    \/ \E t \in Callers : TaskSend(t)
    \/ \E t \in Callers : TaskEnterRecv(t)
    \/ \E t \in Callers : TaskRecv(t)
    \/ TaskBrowserRespond

(***************************************************************************)
(* _calculate_efficiency_score applied to base and delta values            *)
(***************************************************************************)
\* the base values (final application memory, average CPU) and the delta
\* values (total memory delta, peak CPU) a call may be given
BaseValues ==
    {R(-10), R(-1), Zero, Rat(1, 2), R(1), R(10), R(30), R(50), R(100), R(200)}

DeltaValues ==
    {R(-20), R(-1), Zero, Rat(1, 2), R(1), R(5), R(10), R(40), R(100), R(400), R(1000)}

ScoreInit ==
    /\ score_pc = "new"
    /\ score_base = Zero
    /\ score_delta = Zero
    /\ score_out = Zero

\* self._calculate_efficiency_score(base_value, delta_value) is called
CallEfficiencyScore ==
    /\ score_pc \in {"new", "returned"}
    /\ score_base' \in BaseValues
    /\ score_delta' \in DeltaValues
    /\ score_pc' = "called"
    /\ UNCHANGED score_out
    /\ UNCHANGED nonScoreVars

\* and returns
ReturnEfficiencyScore ==
    /\ score_pc = "called"
    /\ score_out' = calculate_efficiency_score(score_base, score_delta)
    /\ score_pc' = "returned"
    /\ UNCHANGED <<score_base, score_delta>>
    /\ UNCHANGED nonScoreVars

ScoreNext == CallEfficiencyScore \/ ReturnEfficiencyScore

(***************************************************************************)
(* LighthouseRunner: _ensure_chrome_ready before every audit, cleanup() in *)
(* the finally block of run_all_frameworks                                 *)
(***************************************************************************)
\* a Chrome the runner did not start
ExternalChrome == -1

\* get_chrome_connection(): (True, None) when a Chrome already answers on the
\* port, (True, launcher) when the new launcher started one, else (False, None)
get_chrome_connection(available, launched_process) ==
    IF available THEN [chrome_ready |-> TRUE, launcher |-> 0]
    ELSE IF launched_process # 0 THEN [chrome_ready |-> TRUE, launcher |-> launched_process]
    ELSE [chrome_ready |-> FALSE, launcher |-> 0]

\* _ensure_chrome_ready: if chrome_ready: self.chrome_launcher = launcher
LauncherAfterEnsure(current, connection) ==
    IF connection.chrome_ready THEN connection.launcher ELSE current

LighthouseInit ==
    /\ lh_pc = "running"
    /\ lh_runs = 0
    /\ chrome_launcher = 0
    /\ port_owner = 0
    /\ started = {}
    /\ alive = {}
    /\ terminated = {}

\* run_single_benchmark calls _ensure_chrome_ready.  When nobody answers on
\* the port, launch_chrome either starts no process (no executable, Popen
\* fails), or starts one that comes up ("up"), or starts one that does not
\* come up and is cleaned up by its launcher ("down").
EnsureChromeReady ==
    /\ lh_pc = "running"
    /\ lh_runs < MaxLighthouseRuns
    /\ lh_runs' = lh_runs + 1
    /\ \E launch \in {"none", "up", "down"} :
          LET available == port_owner # 0
              p == Cardinality(started) + 1
              fresh == ~available /\ launch # "none"
              connection == get_chrome_connection(available,
                                                  IF fresh /\ launch = "up" THEN p ELSE 0)
          IN  /\ available => launch = "none"
              /\ started' = IF fresh THEN started \cup {p} ELSE started
              /\ alive' = IF fresh /\ launch = "up" THEN alive \cup {p} ELSE alive
              /\ terminated' = IF fresh /\ launch = "down" THEN terminated \cup {p}
                                ELSE terminated
              /\ port_owner' = IF fresh /\ launch = "up" THEN p ELSE port_owner
              /\ chrome_launcher' = LauncherAfterEnsure(chrome_launcher, connection)
    /\ UNCHANGED lh_pc
    /\ UNCHANGED nonLighthouseVars

\* LighthouseRunner.cleanup() in the finally block of run_all_frameworks:
\* if self.chrome_launcher: self.chrome_launcher.cleanup(); self.chrome_launcher = None
LighthouseCleanup ==
    /\ lh_pc = "running"
    /\ lh_pc' = "cleaned"
    /\ IF chrome_launcher # 0
       THEN /\ alive' = alive \ {chrome_launcher}
            /\ terminated' = terminated \cup {chrome_launcher}
            /\ port_owner' = IF port_owner = chrome_launcher THEN 0 ELSE port_owner
       ELSE UNCHANGED <<alive, terminated, port_owner>>
    /\ chrome_launcher' = 0
    /\ UNCHANGED <<lh_runs, started>>
    /\ UNCHANGED nonLighthouseVars

\* a Chrome of somebody else starts listening on the port, or stops
ExternalChromeStarts ==
    /\ port_owner = 0
    /\ port_owner' = ExternalChrome
    /\ UNCHANGED <<lh_pc, lh_runs, chrome_launcher, started, alive, terminated>>
    /\ UNCHANGED nonLighthouseVars

ExternalChromeExits ==
    /\ port_owner = ExternalChrome
    /\ port_owner' = 0
    /\ UNCHANGED <<lh_pc, lh_runs, chrome_launcher, started, alive, terminated>>
    /\ UNCHANGED nonLighthouseVars

\* a Chrome the runner started exits on its own
OwnChromeExits ==
    /\ \E p \in alive :
          /\ alive' = alive \ {p}
          /\ port_owner' = IF port_owner = p THEN 0 ELSE port_owner
    /\ UNCHANGED <<lh_pc, lh_runs, chrome_launcher, started, terminated>>
    /\ UNCHANGED nonLighthouseVars

LighthouseNext ==
    \/ EnsureChromeReady
    \/ LighthouseCleanup
    \/ ExternalChromeStarts
    \/ ExternalChromeExits
    \/ OwnChromeExits

(***************************************************************************)
(* Specifications                                                          *)
(***************************************************************************)
Init == ClientInit /\ PassInit /\ RunnerInit /\ SamplerInit /\ TasksInit /\ ScoreInit
        /\ LighthouseInit

Next == RunnerNext

\* the runner: run_all_frameworks with run_single_benchmark as one step
Spec == Init /\ [][Next]_vars

\* the protocol client over one socket
SpecClient == Init /\ [][ClientNext]_vars

\* profiling passes, one after another, step by step
SpecPass == Init /\ [][PassNext]_vars

\* the process sampler: a baseline, the samples of a scenario, the final usage
SpecSampler == Init /\ [][SamplerNext]_vars

\* the runner called more than once
SpecRunnerAgain == Init /\ [][RunnerNext \/ CallRunAllFrameworksAgain]_vars

\* the Lighthouse runner and its Chrome
SpecLighthouse == Init /\ [][LighthouseNext]_vars

\* calls of _calculate_efficiency_score
SpecScore == Init /\ [][ScoreNext]_vars

\* two concurrent callers of send_command on one connection
SpecTasks == Init /\ [][TasksNext]_vars

\* the steps of the client's own code: a coroutine that can go on does go on
\* (the event loop runs it); nothing is assumed of the browser
ClientSteps ==
    \/ SendCommandSend
    \/ SendCommandRecv
    \/ SendCommandRecvFails
    \/ NavPollMessage
    \/ NavPollTimeout
    \/ NavReturn

\* the protocol client with its own steps scheduled fairly
SpecClientLive == Init /\ [][ClientNext]_vars /\ WF_vars(ClientSteps)

(***************************************************************************)
(* Properties of the runner                                                *)
(***************************************************************************)
\* the result appended for the target the loop has just left
LastResult == results[Len(results)]

\* the loop has just left a target that run_multiple_executions returned for
TargetAveraged ==
    /\ rpc = "target"
    /\ fi > 1
    /\ executions > 1
    /\ outcomes[fi - 1] # "raised"

\* the runs of that target that succeeded, and those that failed
SuccessfulRuns == SelectSeq(runs, LAMBDA r : r.success)

FailedRuns == SelectSeq(runs, LAMBDA r : ~r.success)

\* the application memory each successful run measured
AppMemoryValues == [i \in 1..Len(SuccessfulRuns) |-> SuccessfulRuns[i].data.final_usage.app_memory_mb]

\* C5: the averaged result of the resource-usage runs of a target reports the
\* arithmetic mean of the application memory over the successful runs (runs
\* of 10 and 20 give 15) and records the minimum and the maximum of that
\* field in its statistics
C5_ResourceFieldsAveraged ==
    (TargetAveraged /\ kind = "Resource Usage" /\ SuccessfulRuns # <<>>)
    => /\ LastResult.data.final_usage.app_memory_mb * Len(AppMemoryValues)
             = SeqSum(AppMemoryValues)
       /\ HasKey(LastResult.data.execution_stats.statistics, "final_usage")

\* the performance scores and paint times of the successful runs
PerformanceValues == [i \in 1..Len(SuccessfulRuns) |-> SuccessfulRuns[i].data.scores.performance]

PaintValues == [i \in 1..Len(SuccessfulRuns) |-> SuccessfulRuns[i].data.metrics.fcp.value]

\* C6: when at least one of the N >= 2 executions succeeds, the returned
\* result counts the runs that succeeded and the runs that failed, the two
\* counts add up to N, and every averaged value and statistic is computed
\* over the successful runs alone
C6_CountsAndAveragesOverSuccessesOnly ==
    (TargetAveraged /\ SuccessfulRuns # <<>>)
    => LET stats == LastResult.data.execution_stats
           n == Len(SuccessfulRuns)
       IN  /\ stats.successful_executions = n
           /\ stats.failed_executions = Len(FailedRuns)
           /\ stats.total_executions = n + Len(FailedRuns)
           /\ stats.total_executions = executions
           /\ LastResult.success
           /\ kind = "Lighthouse" =>
                 /\ 2 * LastResult.data.scores.performance * n
                       <= 2 * SeqSum(PerformanceValues) + n
                 /\ 2 * LastResult.data.scores.performance * n
                       >= 2 * SeqSum(PerformanceValues) - n
                 /\ stats.statistics.scores.performance.min = SeqMin(PerformanceValues)
                 /\ stats.statistics.scores.performance.max = SeqMax(PerformanceValues)
                 /\ LastResult.data.metrics.fcp.value.num * n
                       = SeqSum(PaintValues) * LastResult.data.metrics.fcp.value.den
                 /\ stats.statistics.metrics.fcp.min = SeqMin(PaintValues)
                 /\ stats.statistics.metrics.fcp.max = SeqMax(PaintValues)

\* three executions, one failed, the two successes measured different values
C6_Witness ==
    /\ TargetAveraged
    /\ executions = 3
    /\ Len(SuccessfulRuns) = 2
    /\ Len(FailedRuns) = 1
    /\ ~runs[1].success
    /\ PerformanceValues = <<800, 900>>
    /\ LastResult.data.scores.performance = 850
    /\ LastResult.data.execution_stats.successful_executions = 2
    /\ LastResult.data.execution_stats.failed_executions = 1

\* C7: when every execution failed, the returned result is the result of the
\* first failed execution itself (its data, its error message, success
\* false), with no execution statistics added
C7_AllFailedReturnsFirstFailure ==
    (TargetAveraged /\ SuccessfulRuns = <<>>)
    => /\ LastResult = runs[1]
       /\ ~LastResult.success
       /\ ~HasKey(LastResult.data, "execution_stats")

\* every execution failed, the first and the last for different reasons
C7_Witness ==
    /\ TargetAveraged
    /\ SuccessfulRuns = <<>>
    /\ Len(runs) = executions
    /\ runs[1].error_message # runs[Len(runs)].error_message
    /\ LastResult = runs[1]

\* C8: every target the loop has left has exactly one result, in list order;
\* the result of a target that failed or raised is a failed result of that
\* target, the results of the other targets are unaffected, and the call
\* returns a result for every target of the list
C8_FailureScopedToTarget ==
    /\ rpc \in {"target", "exec"} =>
          /\ Len(results) = fi - 1
          /\ Len(outcomes) = fi - 1
    /\ (rpc = "done" /\ fi > 0) =>
          /\ Len(results) = Len(frameworks)
          /\ returned = results
    /\ \A i \in 1..Len(outcomes) :
          /\ i <= Len(results)
          /\ results[i].framework = frameworks[i]
          /\ outcomes[i] \in {"failed", "raised"} =>
                (~results[i].success /\ results[i].error_message # "None")
          /\ outcomes[i] = "ok" => results[i].success

\* the first target raised, the second was profiled and succeeded
C8_Witness ==
    /\ rpc = "done"
    /\ Len(frameworks) = 2
    /\ outcomes = <<"raised", "ok">>
    /\ ~returned[1].success
    /\ returned[2].success
    /\ returned[2].framework = frameworks[2]


(***************************************************************************)
(* Claims about the profiling pass                                         *)
(***************************************************************************)
\* a call of run_single_benchmark has returned
PassReturned == ppc = "idle" /\ result # NoBenchmarkResult

\* the launch of the pass raised
LaunchFailed == exc \in {ChromeNotFound, PopenFailed}

\* C1: when launch_isolated_chrome raises inside the pass, run_single_benchmark
\* returns a result marked failed (success = false, error message set) that
\* carries no measurement data.
C1_LaunchFailureGivesFailedResult ==
    (PassReturned /\ LaunchFailed) =>
        /\ result.success = FALSE
        /\ result.error_message # "None"
        /\ Get(result.data, "interactions", <<>>) = <<>>

\* the teardown steps whose handle the pass holds, in the fixed order
ExpectedTeardown ==
    SelectSeq(<<"close", "terminate", "rmtree">>,
              LAMBDA st : \/ st = "close" /\ browser_monitor # "None"
                          \/ st = "terminate" /\ chrome_proc # 0
                          \/ st = "rmtree" /\ chrome_user_dir # 0)

\* C4: at the end of every pass, normal or exceptional, the teardown steps
\* have been attempted in the order close, terminate, rmtree (each for the
\* handle the pass holds), and no failing step kept a later one from being
\* attempted.
C4_TeardownOrderedAndIndependent ==
    (ppc \in {"return", "idle"} /\ npasses > 0) => teardownLog = ExpectedTeardown

\* C4 witness: a pass that ended by an exception, whose close and terminate
\* steps both failed, and that still attempted all three steps
C4_Witness ==
    /\ ppc = "return"
    /\ exc = SamplerError
    /\ {"close", "terminate"} \subseteq teardownFailed
    /\ teardownLog = <<"close", "terminate", "rmtree">>

\* the names of a list of interactions
InteractionNames(interactions) == [i \in 1..Len(interactions) |-> interactions[i].name]

\* the scenarios visited so far that did not raise, in the fixed order
ScenariosRun ==
    LET idx == SelectSeq(<<1, 2, 3, 4>>, LAMBDA i : i < scen /\ i \notin scenRaised)
    IN  [j \in 1..Len(idx) |-> Scenarios[idx[j]]]

\* C9: a scenario that raises is left out of the interactions and its
\* exception does not surface; the other scenarios still run, so the
\* interactions are the scenarios that did not raise, in the fixed order
\* (at most 4 of them).
C9_RaisingScenarioOmitted ==
    /\ Len(interaction_results) <= 4
    /\ InteractionNames(interaction_results) = ScenariosRun
    /\ (ppc \in {"final", "td_close", "td_terminate", "td_rmtree", "return"} /\ ~LaunchFailed
          /\ baseline >= 0)
         => scen = Len(Scenarios) + 1
    /\ (PassReturned /\ exc = "None") =>
         /\ result.success
         /\ "error" \notin DOMAIN result.data
         /\ InteractionNames(result.data.interactions) = ScenariosRun

\* C9 witness: the second scenario raised and the pass returned the other three
C9_Witness ==
    /\ PassReturned
    /\ scenRaised = {2}
    /\ InteractionNames(result.data.interactions)
          = <<"Initial Load", "UI Interactions", "Memory Stress">>

\* C10 as claimed: the sandbox of a pass is fully torn down (process gone,
\* directory removed) before the next pass launches, so two sandbox browser
\* processes never exist at once.
C10_SandboxFullyTornDownBeforeNext ==
    /\ ppc = "launch" => (procs = {} /\ dirs = {})
    /\ Cardinality(procs) <= 1

\* C10 amended: passes run one after another; a pass has attempted to
\* terminate the process and to remove the directory it holds before it
\* returns (so before the next launch), and a sandbox process other than the
\* current pass's exists only if terminate and kill both failed for it.
C10_TeardownAttemptedBeforeNext ==
    /\ \A p \in procs : p = chrome_proc \/ p \in killFailed
    /\ ppc = "launch" => (chrome_proc = 0 /\ chrome_user_dir = 0)
    /\ (ppc \in {"return", "idle"} /\ chrome_proc # 0) =>
          \E i \in 1..Len(teardownLog) : teardownLog[i] = "terminate"
    /\ (ppc \in {"return", "idle"} /\ chrome_user_dir # 0) =>
          \E i \in 1..Len(teardownLog) : teardownLog[i] = "rmtree"

\* C10 witness: the second pass has launched its sandbox while the process of
\* the first, which survived terminate and kill, still exists
C10_Witness ==
    /\ npasses = 2
    /\ ppc = "baseline"
    /\ procs = {1, 2}
    /\ 1 \in killFailed

\* C11: when the DevTools connection of a pass could not be established
\* (connect returned false or raised), the pass goes on with OS-level
\* monitoring only: it holds no protocol client, its scenarios make no protocol
\* call, every interaction it records has heap_delta_mb = 0, all four
\* scenarios are run, and the pass returns a result without an error unless
\* the process sampler itself raised.
C11_NoClientDegradesToOsOnly ==
    devtools = "failed" =>
        /\ browser_monitor = "None"
        /\ commands = 0
        /\ \A i \in 1..Len(interaction_results) :
              interaction_results[i].heap_delta_mb = Zero
        /\ exc \in {"None", SamplerError}
        /\ (ppc \in {"final", "td_close", "td_terminate", "td_rmtree", "return", "idle"}
              /\ exc = "None") => scen = Len(Scenarios) + 1
        /\ (PassReturned /\ exc = "None") =>
              /\ result.success
              /\ "error" \notin DOMAIN result.data
              /\ \A i \in 1..Len(result.data.interactions) :
                    result.data.interactions[i].heap_delta_mb = Zero

\* C11 witness: a pass whose connection failed has returned the metrics of
\* all four scenarios, taken without a single protocol call
C11_Witness ==
    /\ PassReturned
    /\ devtools = "failed"
    /\ exc = "None"
    /\ commands = 0
    /\ InteractionNames(result.data.interactions) = Scenarios
    /\ \A i \in 1..4 : result.data.interactions[i].heap_delta_mb = Zero
    /\ result.data.interactions[1].sample_count = 3

(***************************************************************************)
(* Claims about the protocol client                                        *)
(***************************************************************************)
\* C2: whatever send_command returns from the socket is the response whose id
\* equals the id of the request it wrote; an event notification, or the
\* response to another request, is never returned as the command's response.
C2_ResponseCorrelatedById ==
    cret.kind \in {"response", "event"} =>
        (cret.kind = "response" /\ cret.id = command.id)

\* C3: get_memory_usage on a client that never connected, or whose socket is
\* closed or fails on send/receive, returns connection_working = false with
\* heap_used_mb = heap_total_mb = 0.
C3_DeadConnectionReportsNotWorking ==
    (mret # NoResult /\ (startState # "open" \/ raised)) =>
        /\ Get(mret, "connection_working", TRUE) = FALSE
        /\ Get(mret, "heap_used_mb", 0) = 0
        /\ Get(mret, "heap_total_mb", 0) = 0

\* C12: every send_command on a connected client eventually returns: a call
\* waiting for its response does not wait forever, even when the browser
\* sends nothing more.
C12_SendCommandReturns == (cpc = "recv") ~> (cpc # "recv")

\* C13: the wait loop of navigate_to_url makes a bounded number of polls: at
\* most PollLimit iterations, whatever messages arrive meanwhile.
C13_NavigationPollsBounded == polls <= PollLimit

\* C14: the ids of the requests written to the socket are strictly
\* increasing, so no id is written twice, whatever sends and receives failed.
C14_RequestIdsStrictlyIncreasing ==
    \A i, j \in 1..Len(wire) : i < j => wire[i] < wire[j]

\* C14 witness: three requests were written, the receive of the last one
\* failed (so session_id was not advanced), and the call has returned
C14_Witness ==
    /\ Len(wire) >= 3
    /\ raised
    /\ cpc = "ready"
    /\ op = "idle"
    /\ cret = EmptyDict
    /\ wire[Len(wire)] = session_id

\* C15: get_resource_snapshot for a target with zero matching processes (the
\* root pid no longer exists, or no process matches the browser name) does not
\* raise and returns process_count = 0, memory_mb = 0 and cpu_percent = 0.
C15_ZeroTargetZeroSnapshot ==
    zero_target =>
        /\ spc # "raised"
        /\ snapshot.process_count = 0
        /\ snapshot.memory_mb = Zero
        /\ snapshot.cpu_percent = Zero

\* a snapshot was taken of a vanished root while other processes ran, after a
\* baseline had seen processes
C15_Witness ==
    /\ zero_target
    /\ root_pid # 0
    /\ spc = "done"
    /\ has_baseline
    /\ self_baseline.process_count > 0
    /\ snapshot.process_count = 0

\* whether a snapshot's memory and CPU are not negative
NonNegative(sn) == ~RatLess(sn.memory_mb, Zero) /\ ~RatLess(sn.cpu_percent, Zero)

\* C16: every ResourceSnapshot the program produces (the raw snapshots of
\* get_resource_snapshot, the baseline of establish_baseline and the
\* baseline-subtracted snapshot of calculate_app_usage) has memory_mb >= 0 and
\* cpu_percent >= 0, whatever the processes read and whichever vanish.
C16_SnapshotsNonNegative ==
    /\ NonNegative(snapshot)
    /\ NonNegative(self_baseline)
    /\ NonNegative(usage)
    /\ \A i \in 1..Len(base_samples) : NonNegative(base_samples[i])
    /\ \A i \in 1..Len(samples) : NonNegative(samples[i])

\* a process vanished while the final snapshot was read, the snapshot came out
\* below the baseline in memory and in CPU, and the baseline was subtracted
C16_Witness ==
    /\ usage_of = "snapshot"
    /\ has_baseline
    /\ vanished
    /\ RatLess(Zero, snapshot.memory_mb)
    /\ RatLess(snapshot.memory_mb, self_baseline.memory_mb)
    /\ RatLess(snapshot.cpu_percent, self_baseline.cpu_percent)

\* the snapshot calculate_app_usage was applied to
UsageArgument == IF usage_of = "baseline" THEN self_baseline ELSE snapshot

\* C17: calculate_app_usage applied to the baseline itself yields memory, CPU
\* and process-count deltas all 0; applied to a snapshot with a field below
\* the baseline it yields 0 for that field, never a negative value.
C17_BaselineSubtractionClamped ==
    (usage_of # "none" /\ has_baseline) =>
        /\ usage_of = "baseline" =>
              /\ usage.memory_mb.num = 0
              /\ usage.cpu_percent.num = 0
              /\ usage.process_count = 0
        /\ RatLess(UsageArgument.memory_mb, self_baseline.memory_mb) =>
              usage.memory_mb.num = 0
        /\ RatLess(UsageArgument.cpu_percent, self_baseline.cpu_percent) =>
              usage.cpu_percent.num = 0
        /\ UsageArgument.process_count < self_baseline.process_count =>
              usage.process_count = 0
        /\ usage.memory_mb.num >= 0 /\ usage.cpu_percent.num >= 0
        /\ usage.process_count >= 0

\* the baseline was subtracted from a snapshot below it in memory, in CPU and
\* in the number of processes
C17_Witness ==
    /\ usage_of = "snapshot"
    /\ has_baseline
    /\ RatLess(snapshot.memory_mb, self_baseline.memory_mb)
    /\ RatLess(snapshot.cpu_percent, self_baseline.cpu_percent)
    /\ snapshot.process_count < self_baseline.process_count
    /\ usage.memory_mb = Zero
    /\ usage.process_count = 0

\* the memory of the samples of the scenario
SampleMemory == [i \in 1..Len(samples) |-> samples[i].memory_mb]

\* whether d is max - min of the samples' memory
IsSpan(d) ==
    \E i, j \in 1..Len(samples) :
        /\ d = RatSub(samples[i].memory_mb, samples[j].memory_mb)
        /\ \A k \in 1..Len(samples) :
              /\ ~RatLess(samples[i].memory_mb, samples[k].memory_mb)
              /\ ~RatLess(samples[k].memory_mb, samples[j].memory_mb)

\* whether d is the mean of the samples' memory minus the baseline, or 0 when
\* that is negative
IsMeanAboveBaseline(d) ==
    LET total == RatSum(SampleMemory)
        above == RatSub(Rat(total.num, total.den * Len(samples)), self_baseline.memory_mb)
    IN  IF above.num < 0 THEN d.num = 0 ELSE d = above

\* C18: _create_interaction_metrics reports memory_delta_mb as max - min of the
\* samples' memory when that span is at least 1 MB, and otherwise (a baseline
\* being set) as the mean of the samples minus the baseline memory, clamped at
\* 0; with baseline memory 100 and samples [100, 105, 110] without heap data
\* it reports memory_delta_mb = 10 and heap_delta_mb = 0.
C18_MemoryDeltaSpanOrMean ==
    spc = "measured" =>
        /\ (\E d \in {metrics.memory_delta_mb} : IsSpan(d) /\ ~RatLess(d, R(1)))
           \/ (\E d \in {RatSub(RatSeqMax(SampleMemory), RatSeqMin(SampleMemory))} :
                  /\ IsSpan(d) /\ RatLess(d, R(1))
                  /\ IF has_baseline THEN IsMeanAboveBaseline(metrics.memory_delta_mb)
                     ELSE metrics.memory_delta_mb = d)
        /\ ( /\ has_baseline
             /\ self_baseline.memory_mb = R(100)
             /\ SampleMemory = <<R(100), R(105), R(110)>>
             /\ \A i \in 1..Len(samples) : samples[i].browser_heap_mb = Zero )
           => (metrics.memory_delta_mb = R(10) /\ metrics.heap_delta_mb = Zero)

\* baseline memory 100, the samples [100, 105, 110] without heap data
C18_Witness ==
    /\ spc = "measured"
    /\ has_baseline
    /\ self_baseline.memory_mb = R(100)
    /\ SampleMemory = <<R(100), R(105), R(110)>>
    /\ \A i \in 1..Len(samples) : samples[i].browser_heap_mb = Zero
    /\ metrics.memory_delta_mb = R(10)
    /\ metrics.heap_delta_mb = Zero

\* C19 as claimed: the result of a pass that ran through without an error
\* has the field summary.memory_efficiency_score with the other summary
\* fields, whatever number of the four scenarios succeeded.
C19_SummaryHasEfficiencyScore ==
    (PassReturned /\ exc = "None") =>
        {"total_memory_delta_mb", "total_heap_delta_mb", "final_app_memory_mb",
         "memory_efficiency_score"} \subseteq DOMAIN result.data.summary

\* C20 as claimed: the three baseline samples are taken while the sandbox is
\* blank, before the browser has been directed to the target URL, and the
\* baseline is complete before the protocol client connects and before any
\* scenario runs.
C20_BaselineOnBlankSandbox ==
    /\ baseline >= 0 =>
          /\ Len(baseline_samples) = BaselineSampleCount
          /\ \A i \in 1..Len(baseline_samples) : baseline_samples[i].page = AboutBlank
    /\ (devtools # "untried" \/ scen > 1 \/ Len(interaction_results) > 0) => baseline >= 0

\* the processes of the last snapshot that were still there when measured
Measured == SelectSeq(found, LAMBDA p : ~p.gone)

\* C21: a process that disappears or denies access between the priming read
\* and the measuring read is left out of the snapshot: its memory and CPU are
\* not in the totals, process_count is the number of processes measured, and
\* the snapshot is returned without raising.
C21_VanishedProcessLeftOut ==
    vanished =>
        /\ (\A i \in 1..Len(found) : ~found[i].error) => spc # "raised"
        /\ spc # "raised" =>
              /\ snapshot.process_count = Len(Measured)
              /\ snapshot.memory_mb = RatSum([i \in 1..Len(Measured) |-> Measured[i].rss])
              /\ snapshot.cpu_percent = RatSum([i \in 1..Len(Measured) |-> Measured[i].cpu])

\* of two processes found, one (100 MB) vanished and the other (60 MB) was
\* measured
C21_Witness ==
    /\ vanished
    /\ spc = "done"
    /\ Len(found) = 2
    /\ snapshot.process_count = 1
    /\ snapshot.memory_mb = R(60)
    /\ snapshot.cpu_percent = R(1)

\* the live processes of the table that match the browser name
LiveMatching == SelectSeq(table_read, LAMBDA p : p.matches /\ ~p.scan_fails)

\* C22 as claimed: in the scan by name, a process that raises access-denied
\* or no-such-process while it is examined is skipped on its own, and every
\* other live matching process of the table is still returned.
C22_ScanSkipsFailingProcessAlone ==
    (root_pid = 0 /\ spc # "new") => found = LiveMatching

\* C23 as claimed: when a pass ends, the removal of every profile directory
\* launch_isolated_chrome made during the pass has been attempted, on every
\* path: a directory of the pass that still exists is one whose removal was
\* attempted and failed.
C23_ProfileDirRemovalAttempted ==
    (ppc \in {"return", "idle"} /\ npasses \in dirs) =>
        \E i \in 1..Len(teardownLog) : teardownLog[i] = "rmtree"

\* C24 as claimed: when two callers issue commands concurrently on the same
\* connection, their exchanges are serialized: each caller that has returned
\* from send_command received the response to its own request, never the
\* response to the other caller's request (and never nothing).
C24_ConcurrentCallersGetOwnResponse ==
    \A t \in Callers :
        (tasks_pc[t] = "idle" /\ tasks_command[t] # 0) =>
            /\ tasks_ret[t] # EmptyDict
            /\ tasks_ret[t].kind = "response"
            /\ tasks_ret[t].id = tasks_command[t]
            /\ tasks_ret[t].caller = t

\* whether the data a result holds after the averaging (numbers the call wrote
\* are fractions) is the data its run returned
SameDataAsReturned(after, before) ==
    IF ~HasKey(before, "scores") THEN after = before
    ELSE /\ after.url = before.url
         /\ after.scores = before.scores
         /\ DOMAIN after.metrics = DOMAIN before.metrics
         /\ \A name \in DOMAIN before.metrics :
               /\ after.metrics[name].value = R(before.metrics[name].value)
               /\ after.metrics[name].score = R(before.metrics[name].score)
               /\ after.metrics[name].displayValue = before.metrics[name].displayValue

\* C25 as claimed: _average_results leaves every input result unchanged:
\* after the call the data of each successful run, the first one included, is
\* what the run returned.
C25_AveragingLeavesInputsUnchanged ==
    (TargetAveraged /\ Len(SuccessfulRuns) > 1) =>
        /\ Len(successful_results) = Len(SuccessfulRuns)
        /\ SameDataAsReturned(successful_results[1].data, SuccessfulRuns[1].data)
        /\ \A i \in 2..Len(successful_results) :
              successful_results[i].data = SuccessfulRuns[i].data

\* the samples of the scenario that carry heap data
HeapSamples == SelectSeq(samples, LAMBDA sm : sm.browser_heap_mb.num > 0)

\* whether d is max - min of the heap of the samples that carry heap data
IsHeapSpan(d) ==
    \E i, j \in 1..Len(HeapSamples) :
        /\ d = RatSub(HeapSamples[i].browser_heap_mb, HeapSamples[j].browser_heap_mb)
        /\ \A k \in 1..Len(HeapSamples) :
              /\ ~RatLess(HeapSamples[i].browser_heap_mb, HeapSamples[k].browser_heap_mb)
              /\ ~RatLess(HeapSamples[k].browser_heap_mb, HeapSamples[j].browser_heap_mb)

\* whether d is the average of the heap of the samples that carry heap data
IsHeapMean(d) ==
    LET total == RatSum([i \in 1..Len(HeapSamples) |-> HeapSamples[i].browser_heap_mb])
    IN  d.num * total.den * Len(HeapSamples) = total.num * d.den

UnclampedNum ==
    100 * score_base.num * score_delta.den - 30 * score_delta.num * score_base.den

UnclampedDen == score_base.num * score_delta.den

\* C27: _calculate_efficiency_score(base, delta) is always between 0 and 100;
\* for base > 0 it is 100 - (delta / base) * 30 clamped into [0, 100]; for
\* base <= 0 it is 95 when delta <= 0 and 70 otherwise.
C27_EfficiencyScoreClamped ==
    (score_pc = "returned") =>
        /\ score_out.num >= 0
        /\ score_out.num <= 100 * score_out.den
        /\ score_base.num > 0 =>
              IF UnclampedNum < 0 THEN score_out = Zero
              ELSE IF UnclampedNum > 100 * UnclampedDen THEN score_out = R(100)
              ELSE score_out.num * UnclampedDen = UnclampedNum * score_out.den
        /\ (score_base.num <= 0 /\ score_delta.num <= 0) => score_out = R(95)
        /\ (score_base.num <= 0 /\ score_delta.num > 0) => score_out = R(70)

\* base 100 and delta 40 give 88; nothing was clamped
C27_Witness ==
    /\ score_pc = "returned"
    /\ score_base = R(100)
    /\ score_delta = R(40)
    /\ score_out = R(88)

\* C28 as claimed: in the synchronous pass the protocol socket is operated
\* (send, receive, close) on the event loop on which it was opened, and on no
\* other.
C28_SocketUsedOnItsOwnLoop ==
    socket_loop # 0 => socket_loops \subseteq {socket_loop}

\* C29 as claimed: when the health check passes, run_all_frameworks returns
\* a list with exactly one result per target requested in that call, in
\* request order, whatever calls were made on the runner before.
C29_OneResultPerRequestedTarget ==
    (rpc = "done" /\ fi > Len(frameworks)) =>
        /\ Len(returned) = Len(frameworks)
        /\ \A i \in 1..Len(frameworks) :
              i <= Len(returned) /\ returned[i].framework = frameworks[i]

\* C30 as claimed: a Chrome the Lighthouse runner launched is terminated by
\* cleanup() at the end of run_all_frameworks, for any number of runs: until
\* cleanup the runner holds the launcher of the process it started, and it
\* never terminates a Chrome it did not start.
C30_LaunchedChromeTerminatedAtCleanup ==
    /\ lh_pc = "cleaned" => alive = {}
    /\ lh_pc = "running" => \A p \in alive : chrome_launcher = p
    /\ terminated \subseteq started
    /\ ExternalChrome \notin terminated

====
